---- MODULE Spec2Model ----
(***************************************************************************)
(* Model of the device-features demo page (devices-demo/js/scripts.js):    *)
(* the feature selector's change listener, the nineteen feature handlers   *)
(* it dispatches to, and the listeners and promise continuations those     *)
(* handlers leave behind.                                                  *)
(*                                                                         *)
(* JavaScript runs every listener to completion, so every listener and     *)
(* every promise continuation is one action.  The change listener of the   *)
(* feature selector is shown in two consecutive steps (SelectorChange: the *)
(* assignment of line 23; Dispatch: the switch of lines 25-50) so that the *)
(* state between the two is visible; no other action is enabled between.   *)
(*                                                                         *)
(* The host (which APIs exist, what a permission query answers, whether a  *)
(* platform call throws or its promise rejects) is the environment: each   *)
(* answer is drawn with \E where the code asks for it.                     *)
(***************************************************************************)
EXTENDS Integers, Sequences, FiniteSets

\* ---------------------------------------------------------------- bounds
\* Selector changes explored.
MaxChanges == 2
\* Parts a message element may hold (innerHTML += grows it without limit).
MaxMsgParts == 3
\* Idle detectors / interval timers one handler instance may have started.
MaxHandles == 2
\* Listener runs other than the feature selector's (clicks, platform events,
\* promise continuations) explored.
MaxEvents == 5
\* Fetch events the service worker receives.
MaxFetches == 2
\* Selector changes explored beside the service worker's life.
MaxLoadChanges == 1

VARIABLES
  selected,           \* featureSelector.value
  pc,                 \* "idle", or "dispatch" inside the change listener
  output,             \* children of the #output element, in order
  inst,               \* one record per handler invocation (its closure)
  invoked,            \* handlers the dispatcher called for the last change
  wiped,              \* number of nodes the running change listener removed
  changes,            \* selector changes so far
  fullscreenElement,  \* document.fullscreenElement is set
  visibility,         \* document.visibilityState
  batteryListeners,   \* instances listening on the BatteryManager, in order
  connListeners,      \* instances listening on navigator.connection
  visListeners,       \* instances listening for visibilitychange
  events,             \* listener runs other than the feature selector's, so far
  battery,            \* the BatteryManager's values when the page last read them
  registration,       \* the page's register() call: its promise, or not made
  registerCalls,      \* calls of navigator.serviceWorker.register() so far
  consoleLog,         \* what the registration code has logged
  sw,                 \* the service worker's state
  skipWaitingFlag,    \* self.skipWaiting() has been called
  claim,              \* the promise of clients.claim()
  controlled,         \* the open page is controlled by the worker
  lifecycle,          \* the worker's lifecycle steps, in order
  fetches             \* one record per fetch event the worker received

vars == <<selected, pc, output, inst, invoked, wiped, changes, fullscreenElement,
          visibility, batteryListeners, connListeners, visListeners, events,
          battery, registration, registerCalls, consoleLog, sw, skipWaitingFlag, claim,
          controlled, lifecycle, fetches>>

\* The registration of the page and the state of the service worker.
workerVars == <<registration, registerCalls, consoleLog, sw, skipWaitingFlag, claim,
                controlled, lifecycle, fetches>>

\* Everything the feature dispatcher and its handlers own.
pageVars == <<selected, pc, output, inst, invoked, wiped, changes, fullscreenElement,
              visibility, batteryListeners, connListeners, visListeners, events,
              battery>>

\* ------------------------------------------------------------ dispatcher
\* The case labels of the switch.
Tags == {"battery", "network-info", "fullscreen", "screen-orientation",
         "vibration", "badging", "page-visibility", "idle-detection",
         "screen-wake-lock", "geolocation", "permissions", "accelerometer",
         "linear-acceleration", "gyroscope", "gravity", "magnetometer",
         "ambient-light", "absolute-orientation", "relative-orientation"}

\* The values the feature selector can take: the page's <option> list.
SelectorOptions == Tags

NoHandler == "none"

\* A wrong case label: 'gravity' falls into the gyroscope handler.
HandlerOfSwapped(tag) ==
  CASE tag = "battery" -> "handleBatteryStatusAPI"
    [] tag = "network-info" -> "handleNetworkInformation"
    [] tag = "fullscreen" -> "handleFullscreenAPI"
    [] tag = "screen-orientation" -> "handleScreenOrientationAPI"
    [] tag = "vibration" -> "handleVibrationAPI"
    [] tag = "badging" -> "handleBadgingAPI"
    [] tag = "page-visibility" -> "handlePageVisibility"
    [] tag = "idle-detection" -> "handleIdleDetectionAPI"
    [] tag = "screen-wake-lock" -> "handleScreenWakeLockAPI"
    [] tag = "geolocation" -> "handleGeolocationAPI"
    [] tag = "permissions" -> "handlePermissionsAPI"
    [] tag = "accelerometer" -> "handleAccelerometer"
    [] tag = "linear-acceleration" -> "handleLinearAccelerationSensor"
    [] tag = "gyroscope" -> "handleGyroscope"
    [] tag = "gravity" -> "handleGyroscope"
    [] tag = "magnetometer" -> "handleMagnetometer"
    [] tag = "ambient-light" -> "handleAmbientLightSensor"
    [] tag = "absolute-orientation" -> "handleAbsoluteOrientationSensor"
    [] tag = "relative-orientation" -> "handleRelativeOrientationSensor"
    [] OTHER -> NoHandler

\* The switch of the change listener; it has no default clause.
HandlerOf(tag) ==
  CASE tag = "battery" -> "handleBatteryStatusAPI"
    [] tag = "network-info" -> "handleNetworkInformation"
    [] tag = "fullscreen" -> "handleFullscreenAPI"
    [] tag = "screen-orientation" -> "handleScreenOrientationAPI"
    [] tag = "vibration" -> "handleVibrationAPI"
    [] tag = "badging" -> "handleBadgingAPI"
    [] tag = "page-visibility" -> "handlePageVisibility"
    [] tag = "idle-detection" -> "handleIdleDetectionAPI"
    [] tag = "screen-wake-lock" -> "handleScreenWakeLockAPI"
    [] tag = "geolocation" -> "handleGeolocationAPI"
    [] tag = "permissions" -> "handlePermissionsAPI"
    [] tag = "accelerometer" -> "handleAccelerometer"
    [] tag = "linear-acceleration" -> "handleLinearAccelerationSensor"
    [] tag = "gyroscope" -> "handleGyroscope"
    [] tag = "gravity" -> "handleGravitySensor"
    [] tag = "magnetometer" -> "handleMagnetometer"
    [] tag = "ambient-light" -> "handleAmbientLightSensor"
    [] tag = "absolute-orientation" -> "handleAbsoluteOrientationSensor"
    [] tag = "relative-orientation" -> "handleRelativeOrientationSensor"
    [] OTHER -> NoHandler

\* The assignment leaves the earlier content in place.
ClearOutputKept(o) == o

\* output.innerText = '' removes every child of the output region.
ClearOutput(o) == <<>>

\* ------------------------------------------------------- sensor handlers
SensorHandlers == {"handleAccelerometer", "handleLinearAccelerationSensor",
                   "handleGyroscope", "handleGravitySensor", "handleMagnetometer",
                   "handleAmbientLightSensor", "handleAbsoluteOrientationSensor",
                   "handleRelativeOrientationSensor"}

\* The permission names each sensor handler queries, in the order of its code.
SensorPerms(h) ==
  CASE h = "handleAccelerometer" -> <<"accelerometer">>
    [] h = "handleLinearAccelerationSensor" -> <<"accelerometer">>
    [] h = "handleGyroscope" -> <<"gyroscope">>
    [] h = "handleGravitySensor" -> <<"accelerometer">>
    [] h = "handleMagnetometer" -> <<"magnetometer">>
    [] h = "handleAmbientLightSensor" -> <<"ambient-light-sensor">>
    [] h = "handleAbsoluteOrientationSensor" -> <<"accelerometer", "gyroscope", "magnetometer">>
    [] h = "handleRelativeOrientationSensor" -> <<"accelerometer", "gyroscope">>

\* The text of the catch around the sensor's construction.
SensorErrorMsg(h) ==
  CASE h = "handleAccelerometer" -> "Accelerometer error: error"
    [] h = "handleLinearAccelerationSensor" -> "LinearAccelerationSensor error: error"
    [] h = "handleGyroscope" -> "Gyroscope error: error"
    [] h = "handleGravitySensor" -> "GravitySensor error: error"
    [] h = "handleMagnetometer" -> "Magnetometer error: error"
    [] h = "handleAmbientLightSensor" -> "AmbientLightSensor error: error"
    [] h = "handleAbsoluteOrientationSensor" -> "AbsoluteOrientationSensor error: error"
    [] h = "handleRelativeOrientationSensor" -> "RelativeOrientationSensor error: error"

\* The text of the sensor's 'error' listener.
SensorFailedMsg(h) ==
  CASE h = "handleAccelerometer" -> "Accelerometer failed: error"
    [] h = "handleLinearAccelerationSensor" -> "LinearAccelerationSensor failed: error"
    [] h = "handleGyroscope" -> "Gyroscope failed: error"
    [] h = "handleGravitySensor" -> "GravitySensor failed: error"
    [] h = "handleMagnetometer" -> "Magnetometer failed: error"
    [] h = "handleAmbientLightSensor" -> "AmbientLightSensor failed: error"
    [] h = "handleAbsoluteOrientationSensor" -> "AbsoluteOrientationSensor failed: error"
    [] h = "handleRelativeOrientationSensor" -> "RelativeOrientationSensor failed: error"

\* The text rendered when the query of permission p is not granted.
DenialMsg(p) ==
  CASE p = "accelerometer" -> "You are not autorized to use the accelerometer sensor."
    [] p = "gyroscope" -> "You are not autorized to use the gyroscope sensor."
    [] p = "magnetometer" -> "You are not autorized to use the magnetometer sensor."
    [] p = "ambient-light-sensor" -> "You are not autorized to use the ambient light sensor."

PermissionStates == {"granted", "denied", "prompt"}

\* Only an explicit denial stops the handler: 'prompt' passes.
NotGrantedOnlyDenied(state) == state = "denied"

\* The test applied to every PermissionStatus: state !== 'granted'.
NotGranted(state) == state # "granted"

\* Every denial renders the text of the first declared permission.
DeniedPermissionFirst(perms, k) == perms[1]

\* The permission named by the text that follows the k-th query's test.
DeniedPermission(perms, k) == perms[k]

\* All queries of the handler are issued up front.
QueriesToIssueAll(perms, k) == {j \in 1..Len(perms) : j > k}

\* The queries issued once k queries have resolved to 'granted': the next one
\* in declared order, alone (each query is awaited before the next statement).
QueriesToIssue(perms, k) == IF k < Len(perms) THEN {k + 1} ELSE {}

\* ------------------------------------------------ the fixed message texts
\* The text each handler renders when its presence check fails.
NotSupportedMsg(h) ==
  CASE h = "handleBatteryStatusAPI" -> "Battery API not supported on this device."
    [] h = "handleNetworkInformation" -> "Network information not available on this device."
    [] h = "handleFullscreenAPI" -> "Fullscreen not available or enabled on this device."
    [] h = "handleScreenOrientationAPI" -> "Screen orientation is not available on this device."
    [] h = "handleVibrationAPI" -> "Vibration is not supported on this device."
    [] h = "handleBadgingAPI" -> "Badge API not available on this device."
    [] h = "handleIdleDetectionAPI" -> "IdleDetector not supported on this device."
    [] h = "handleScreenWakeLockAPI" -> "Screen Wake Lock API not supported on this device."
    [] h = "handleGeolocationAPI" -> "Geolocation API not available on this device."
    [] h = "handlePermissionsAPI" -> "Permission API not available on this device."
    [] h = "handleAccelerometer" -> "Accelerometer not available on this device."
    [] h = "handleLinearAccelerationSensor" -> "LinearAccelerationSensor not available on this device."
    [] h = "handleGyroscope" -> "Gyroscope not available on this device."
    [] h = "handleGravitySensor" -> "GravitySensor not available on this device."
    [] h = "handleMagnetometer" -> "Magnetometer not available on this device."
    [] h = "handleAmbientLightSensor" -> "AmbientLightSensor not available on this device."
    [] h = "handleAbsoluteOrientationSensor" -> "AbsoluteOrientationSensor not available on this device."
    [] h = "handleRelativeOrientationSensor" -> "RelativeOrientationSensor not available on this device."

\* The sensor handlers' second presence check: 'permissions' in navigator.
NoPermissionApiMsg == "Permission API not available on this device."

\* ------------------------------------------------------- the output region
\* A child of the output region: a text written by instance i, or an element
\* (button, div, select) that instance i created.
TextNode(i, s) == [owner |-> i, kind |-> "text", name |-> s]
Element(i, n) == [owner |-> i, kind |-> "element", name |-> n]

\* output.innerText = s / output.innerHTML = s: the text replaces every child.
SetText(i, s) == << TextNode(i, s) >>

\* output.appendChild(e) for each element of the sequence names, in order.
AppendAll(o, i, names) == o \o [j \in 1..Len(names) |-> Element(i, names[j])]

\* Element n of instance i is in the output region (the user can reach it).
Attached(i, n) == \E j \in 1..Len(output) : output[j] = Element(i, n)

\* ------------------------------------------------------ handler instances
\* The closure of one handler invocation.
NewInst(h) ==
  [h |-> h,
   st |-> "Unchecked",   \* Unsupported, Pending, Denied, Rejected, Failed, Ready
   issued |-> {},        \* indices of the permission queries issued
   results |-> <<>>,     \* states the resolved permission queries returned
   ctl |-> <<>>,         \* elements created, in creation order
   dis |-> {},           \* disabled buttons
   msg |-> <<>>,         \* content of the message element, one text per part
   pend |-> {},          \* platform promises still pending
   sensor |-> FALSE,     \* the sensor variable holds an object
   active |-> 0,         \* handles started and not stopped
   timers |-> 0,         \* intervals set
   seconds |-> <<>>,     \* the seconds variable of each interval set, in order
   queue |-> <<>>,       \* the intervals in the order in which they fire next
   shown |-> 0,          \* the seconds the Clock button was last set to show
   starts |-> 0,         \* start() calls that returned since the last stop()
   restarted |-> FALSE,  \* start() was called on a started handle
   last |-> "",          \* the last listener run and how it ended
   err |-> "",           \* the last error that escaped a listener
   starting |-> 0,       \* start() promises of idle detectors still pending
   listening |-> FALSE,  \* a PermissionStatus change listener is registered
   host |-> "",          \* which variant of the API the host has
   option |-> "",        \* select.value of the permissions dropdown
   queries |-> <<>>,     \* names of the permissions queries in flight, in call order
   value |-> 0,          \* the reading or position the platform delivered last
   requests |-> 0,       \* getCurrentPosition() calls made
   renders |-> 0,        \* getCurrentPosition() callbacks run
   asking |-> 0,         \* Notification.requestPermission() calls unanswered
   ready |-> 0,          \* serviceWorker.ready continuations waiting
   notified |-> 0,       \* showNotification() calls made
   leftTime |-> FALSE]   \* leftTime has been assigned

Insts == 1..Len(inst)

\* A click is dispatched only to an enabled button the user can reach, and the
\* user interacts with the page only while it is visible and no listener runs.
CanClick(i, b) ==
  /\ pc = "idle"
  /\ visibility = "visible"
  /\ Attached(i, b)
  /\ b \notin inst[i].dis

Min(a, b) == IF a < b THEN a ELSE b

dispVars == <<selected, pc, invoked, wiped, changes>>
listenerVars == <<batteryListeners, connListeners, visListeners>>
hostVars == <<fullscreenElement, visibility, battery>>

\* One more listener run, within the bound.
Tick == events < MaxEvents /\ events' = events + 1

\* Lines 6-16, run once while the script loads: register() is called on a
\* host with service workers; on any other host a line is logged.
RegisterOnLoad(supported) ==
  IF supported
  THEN [registration |-> "pending", calls |-> 1, log |-> {}]
  ELSE [registration |-> "unsupported", calls |-> 0,
        log |-> {"Service Worker is not supported by this browser."}]

\* The registration after the script has loaded; no worker exists yet.
InitWorker(supported) ==
  LET r == RegisterOnLoad(supported) IN
  /\ registration = r.registration
  /\ registerCalls = r.calls
  /\ consoleLog = r.log
  /\ sw = "none"
  /\ skipWaitingFlag = FALSE
  /\ claim = "none"
  /\ controlled = FALSE
  /\ lifecycle = <<>>
  /\ fetches = <<>>

\* The page after the script has loaded: nothing selected, nothing rendered.
InitPage ==
  /\ selected = ""
  /\ pc = "idle"
  /\ output = <<>>
  /\ inst = <<>>
  /\ invoked = <<>>
  /\ wiped = 0
  /\ changes = 0
  /\ fullscreenElement = FALSE
  /\ visibility = "visible"
  /\ batteryListeners = <<>>
  /\ connListeners = <<>>
  /\ visListeners = <<>>
  /\ events = 0
  /\ battery = [charging |-> FALSE, level |-> 0]

\* The feature handlers, on a host without service workers.  The only
\* statement of a handler that reads the registration is the page-visibility
\* listener's navigator.serviceWorker.ready (WorkerSpec).
Init == InitPage /\ InitWorker(FALSE)

\* The change listener also disposes of what the earlier handlers acquired.
SelectorChangeDisposing ==
  /\ pc = "idle"
  /\ visibility = "visible"
  /\ changes < MaxChanges
  /\ \E tag \in SelectorOptions :
       /\ tag # selected
       /\ selected' = tag
  /\ output' = ClearOutput(output)
  /\ wiped' = Len(output)
  /\ invoked' = <<>>
  /\ changes' = changes + 1
  /\ pc' = "dispatch"
  /\ inst' = [i \in Insts |-> [inst[i] EXCEPT !.active = 0, !.timers = 0, !.starts = 0]]
  /\ batteryListeners' = <<>>
  /\ connListeners' = <<>>
  /\ visListeners' = <<>>
  /\ UNCHANGED <<fullscreenElement, visibility, events, battery, workerVars>>

\* Lines 22-23: the change event fires (the value changed) and the listener
\* empties the output region.
Select(tag) ==
  /\ pc = "idle"
  /\ visibility = "visible"
  /\ tag # selected
  /\ selected' = tag
  /\ output' = ClearOutput(output)
  /\ wiped' = Len(output)
  /\ invoked' = <<>>
  /\ changes' = changes + 1
  /\ pc' = "dispatch"
  /\ UNCHANGED <<inst, fullscreenElement, visibility, batteryListeners,
                 connListeners, visListeners, events, battery, workerVars>>

\* The user picks any other option of the feature selector.
SelectorChange ==
  /\ changes < MaxChanges
  /\ \E tag \in SelectorOptions : Select(tag)

\* ----------------------------------------------- handlers: synchronous part
\* What one handler call yields: the closures created, the output region it
\* leaves, and the listeners it registered on navigator.connection / document.
Result(new, out, conn, vis) == [new |-> new, out |-> out, conn |-> conn, vis |-> vis]

\* The else branch of a presence check: the fixed text replaces the output.
Unsupported(h, i, text) ==
  Result(<< [NewInst(h) EXCEPT !.st = "Unsupported"] >>, SetText(i, text), <<>>, <<>>)

\* A handler that passed its checks and created the elements ctl.
WithControls(h, i, o, ctl, disabled, msg) ==
  Result(<< [NewInst(h) EXCEPT !.st = "Ready", !.ctl = ctl, !.dis = disabled, !.msg = msg] >>,
         AppendAll(o, i, ctl), <<>>, <<>>)

handleBatteryStatusAPI(i, o, present) ==
  IF present
  THEN Result(<< [NewInst("handleBatteryStatusAPI") EXCEPT !.st = "Pending", !.pend = {"getBattery"}] >>,
              o, <<>>, <<>>)
  ELSE Unsupported("handleBatteryStatusAPI", i, NotSupportedMsg("handleBatteryStatusAPI"))

handleNetworkInformation(i, o, present) ==
  IF present
  THEN Result(<< [NewInst("handleNetworkInformation") EXCEPT !.st = "Ready"] >>,
              SetText(i, "Current network type"), <<i>>, <<>>)
  ELSE Unsupported("handleNetworkInformation", i, NotSupportedMsg("handleNetworkInformation"))

handleFullscreenAPI(i, o, present) ==
  IF present
  THEN WithControls("handleFullscreenAPI", i, o, <<"Toggle Fullscreen", "message">>, {},
                    <<"Click on the button above">>)
  ELSE Unsupported("handleFullscreenAPI", i, NotSupportedMsg("handleFullscreenAPI"))

\* Calls handleFullscreenAPI (closure i), then adds its own controls (closure
\* i + 1) to whatever that call left in the output region.
handleScreenOrientationAPI(i, o, present, fullscreen) ==
  IF present
  THEN LET fs == handleFullscreenAPI(i, o, fullscreen)
           me == WithControls("handleScreenOrientationAPI", i + 1, fs.out,
                              <<"Lock Portrait", "Lock Landscape", "Unlock", "message">>, {}, <<>>)
       IN  Result(fs.new \o me.new, me.out, <<>>, <<>>)
  ELSE Unsupported("handleScreenOrientationAPI", i, NotSupportedMsg("handleScreenOrientationAPI"))

handleVibrationAPI(i, o, present) ==
  IF present
  THEN WithControls("handleVibrationAPI", i, o, <<"Single Vibration", "Multiple Vibration">>, {}, <<>>)
  ELSE Unsupported("handleVibrationAPI", i, NotSupportedMsg("handleVibrationAPI"))

\* 'setAppBadge' in navigator || 'setClientBadge' in navigator
handleBadgingAPI(i, o, setAppBadge, setClientBadge) ==
  IF setAppBadge \/ setClientBadge
  THEN LET r == WithControls("handleBadgingAPI", i, o,
                             <<"Set App Badge", "Clear App Badge", "message">>, {}, <<>>)
       IN  Result(<< [r.new[1] EXCEPT !.host = IF setAppBadge THEN "setAppBadge" ELSE "setClientBadge"] >>,
                  r.out, <<>>, <<>>)
  ELSE Unsupported("handleBadgingAPI", i, NotSupportedMsg("handleBadgingAPI"))

\* No presence check: writes its text and listens for visibilitychange.
\* The handler writes its text and registers no listener.
handlePageVisibilityUnregistered(i, o) ==
  Result(<< [NewInst("handlePageVisibility") EXCEPT !.st = "Ready"] >>,
         SetText(i, "Page visibility set."), <<>>, <<>>)

handlePageVisibility(i, o) ==
  Result(<< [NewInst("handlePageVisibility") EXCEPT !.st = "Ready"] >>,
         SetText(i, "Page visibility set."), <<>>, <<i>>)

handleIdleDetectionAPI(i, o, present) ==
  IF present
  THEN WithControls("handleIdleDetectionAPI", i, o,
                    <<"Request Permission", "Start Listening", "message", "Clock">>, {}, <<>>)
  ELSE Unsupported("handleIdleDetectionAPI", i, NotSupportedMsg("handleIdleDetectionAPI"))

handleScreenWakeLockAPI(i, o, present) ==
  IF present
  THEN Result(<< [NewInst("handleScreenWakeLockAPI") EXCEPT !.st = "Pending", !.pend = {"request"}] >>,
              o, <<>>, <<>>)
  ELSE Unsupported("handleScreenWakeLockAPI", i, NotSupportedMsg("handleScreenWakeLockAPI"))

handleGeolocationAPI(i, o, present) ==
  IF present
  THEN WithControls("handleGeolocationAPI", i, o,
                    <<"Current Position", "Watch Position", "message">>, {}, <<>>)
  ELSE Unsupported("handleGeolocationAPI", i, NotSupportedMsg("handleGeolocationAPI"))

handlePermissionsAPI(i, o, present) ==
  IF present
  THEN WithControls("handlePermissionsAPI", i, o, <<"select", "message">>, {},
                    <<"Select a permission above.">>)
  ELSE Unsupported("handlePermissionsAPI", i, NotSupportedMsg("handlePermissionsAPI"))

\* The part of a sensor handler before its first await: the two presence
\* checks, then the first permission query is issued.
handleSensor(h, i, o, hasClass, hasPermissions) ==
  IF ~hasClass THEN Unsupported(h, i, NotSupportedMsg(h))
  ELSE IF ~hasPermissions THEN Unsupported(h, i, NoPermissionApiMsg)
  ELSE Result(<< [NewInst(h) EXCEPT !.st = "Pending",
                                    !.issued = QueriesToIssue(SensorPerms(h), 0)] >>,
              o, <<>>, <<>>)

\* The call the switch makes for handler h; a and b are the host's answers to
\* the handler's presence checks.
Invoke(h, i, o, a, b) ==
  CASE h = "handleBatteryStatusAPI" -> handleBatteryStatusAPI(i, o, a)
    [] h = "handleNetworkInformation" -> handleNetworkInformation(i, o, a)
    [] h = "handleFullscreenAPI" -> handleFullscreenAPI(i, o, a)
    [] h = "handleScreenOrientationAPI" -> handleScreenOrientationAPI(i, o, a, b)
    [] h = "handleVibrationAPI" -> handleVibrationAPI(i, o, a)
    [] h = "handleBadgingAPI" -> handleBadgingAPI(i, o, a, b)
    [] h = "handlePageVisibility" -> handlePageVisibility(i, o)
    [] h = "handleIdleDetectionAPI" -> handleIdleDetectionAPI(i, o, a)
    [] h = "handleScreenWakeLockAPI" -> handleScreenWakeLockAPI(i, o, a)
    [] h = "handleGeolocationAPI" -> handleGeolocationAPI(i, o, a)
    [] h = "handlePermissionsAPI" -> handlePermissionsAPI(i, o, a)
    [] h \in SensorHandlers -> handleSensor(h, i, o, a, b)
    [] OTHER -> Result(<<>>, o, <<>>, <<>>)

\* Lines 25-50: the switch calls the handler of the selected value.
Dispatch ==
  /\ pc = "dispatch"
  /\ LET h == HandlerOf(selected) IN
       /\ invoked' = IF h = NoHandler THEN invoked ELSE Append(invoked, h)
       /\ \E a, b \in BOOLEAN :
            LET r == Invoke(h, Len(inst) + 1, output, a, b) IN
              /\ inst' = inst \o r.new
              /\ output' = r.out
              /\ connListeners' = connListeners \o r.conn
              /\ visListeners' = visListeners \o r.vis
  /\ pc' = "idle"
  /\ wiped' = 0
  /\ UNCHANGED <<selected, changes, fullscreenElement, visibility, batteryListeners,
                 events, battery, workerVars>>

\* ------------------------------------- sensor handlers: after each await
\* Lines 793-860 (and the same lines of the other sensor handlers): the three
\* elements are created, both buttons disabled, then the sensor is
\* constructed inside try/catch.
\* Start is enabled before the constructor is called.
CreateSensorStartEnabled(r, threw) ==
  IF threw
  THEN [r EXCEPT !.st = "Failed", !.ctl = <<"Start", "Stop", "message">>,
                 !.dis = {"Stop"}, !.msg = <<SensorErrorMsg(r.h)>>]
  ELSE [r EXCEPT !.st = "Ready", !.ctl = <<"Start", "Stop", "message">>,
                 !.dis = {"Stop"}, !.sensor = TRUE]

CreateSensor(r, threw) ==
  IF threw
  THEN [r EXCEPT !.st = "Failed", !.ctl = <<"Start", "Stop", "message">>,
                 !.dis = {"Start", "Stop"}, !.msg = <<SensorErrorMsg(r.h)>>]
  ELSE [r EXCEPT !.st = "Ready", !.ctl = <<"Start", "Stop", "message">>,
                 !.dis = {"Stop"}, !.sensor = TRUE]

\* The handler tests the state an earlier invocation of the same handler
\* got for its k-th query, when there is one.
AnswerCached(i, k, state) ==
  LET earlier == {j \in 1..(i - 1) : inst[j].h = inst[i].h /\ Len(inst[j].results) >= k} IN
  IF earlier = {} THEN state
  ELSE inst[CHOOSE j \in earlier : \A m \in earlier : m <= j].results[k]

\* The state invocation i tests after its k-th await: the state of the
\* PermissionStatus that its own navigator.permissions.query() resolved with.
Answer(i, k, state) == state

\* The continuation of a sensor handler when its awaited query resolves.
QueryResolve ==
  /\ Tick
  /\ pc = "idle"
  /\ \E i \in Insts, state \in PermissionStates, threw \in BOOLEAN :
       LET r == inst[i]
           perms == SensorPerms(r.h)
           k == Len(r.results) + 1
           r1 == [r EXCEPT !.results = Append(r.results, state)]
       IN
       /\ r.h \in SensorHandlers
       /\ r.st = "Pending"
       /\ k \in r.issued
       /\ IF NotGranted(Answer(i, k, state))
          THEN /\ inst' = [inst EXCEPT ![i] = [r1 EXCEPT !.st = "Denied"]]
               /\ output' = SetText(i, DenialMsg(DeniedPermission(perms, k)))
          ELSE IF k < Len(perms)
          THEN /\ inst' = [inst EXCEPT ![i] =
                             [r1 EXCEPT !.issued = r.issued \cup QueriesToIssue(perms, k)]]
               /\ output' = output
          ELSE /\ inst' = [inst EXCEPT ![i] = CreateSensor(r1, threw)]
               /\ output' = AppendAll(output, i, <<"Start", "Stop", "message">>)
  /\ UNCHANGED <<dispVars, hostVars, listenerVars, workerVars>>

\* navigator.permissions.query rejects: the await throws inside the async
\* handler, whose promise nobody handles.
QueryReject ==
  /\ Tick
  /\ pc = "idle"
  /\ \E i \in Insts :
       /\ inst[i].h \in SensorHandlers
       /\ inst[i].st = "Pending"
       /\ Len(inst[i].results) + 1 \in inst[i].issued
       /\ inst' = [inst EXCEPT ![i].st = "Rejected",
                               ![i].err = "unhandledrejection: permissions.query"]
  /\ UNCHANGED <<output, dispVars, hostVars, listenerVars, workerVars>>

\* The Start button keeps its state after a start() that returned.
AfterStartKeep(dis) == dis

\* The buttons keep their state after a stop() that returned.
AfterStopKeep(dis) == dis

\* buttonStart.disabled = true; buttonStop.disabled = false
AfterStart(dis) == (dis \cup {"Start"}) \ {"Stop"}

\* Stop is left enabled when Start is enabled again.
AfterStopStartOnly(dis) == dis \ {"Start"}

\* buttonStart.disabled = false; buttonStop.disabled = true
AfterStop(dis) == (dis \ {"Start"}) \cup {"Stop"}

\* The catch block of the Start listener also disables Start.
StartCatchDisabling(r) ==
  [r EXCEPT !.msg = <<"It was not possible to start the sensor: error">>,
            !.dis = @ \cup {"Start"},
            !.last = "startThrew"]

\* The catch block of the Start listener: the message, nothing else.
StartCatch(r) ==
  [r EXCEPT !.msg = <<"It was not possible to start the sensor: error">>,
            !.last = "startThrew"]

\* The catch block of the Stop listener: the message, nothing else.
StopCatch(r) ==
  [r EXCEPT !.msg = <<"It was not possible to stop the sensor: error">>,
            !.last = "stopThrew"]

\* Click on Start: sensor.start() inside try/catch.
ClickStart ==
  /\ Tick
  /\ \E i \in Insts, threw \in BOOLEAN :
       LET r == inst[i] IN
       /\ r.h \in SensorHandlers
       /\ CanClick(i, "Start")
       /\ IF threw \/ ~r.sensor
          THEN inst' = [inst EXCEPT ![i] = StartCatch(r)]
          ELSE inst' = [inst EXCEPT ![i] =
                 [r EXCEPT !.dis = AfterStart(r.dis),
                           !.restarted = r.restarted \/ r.active > 0,
                           !.active = 1,
                           !.starts = Min(r.starts + 1, 2),
                           !.last = "start"]]
  /\ UNCHANGED <<output, dispVars, hostVars, listenerVars, workerVars>>

\* Click on Stop: sensor.stop() inside try/catch.
ClickStop ==
  /\ Tick
  /\ \E i \in Insts, threw \in BOOLEAN :
       LET r == inst[i] IN
       /\ r.h \in SensorHandlers
       /\ CanClick(i, "Stop")
       /\ IF threw \/ ~r.sensor
          THEN inst' = [inst EXCEPT ![i] = StopCatch(r)]
          ELSE /\ Len(r.msg) < MaxMsgParts
               /\ inst' = [inst EXCEPT ![i] =
                    [r EXCEPT !.dis = AfterStop(r.dis),
                              !.active = 0,
                              !.starts = 0,
                              !.msg = Append(r.msg, "Sensor stopped!"),
                              !.last = "stop"]]
  /\ UNCHANGED <<output, dispVars, hostVars, listenerVars, workerVars>>

\* The error listener enables Start and leaves Stop as it is.
AfterErrorStopKept(dis) == dis \ {"Start"}

\* The error listener: buttonStart.disabled = false; buttonStop.disabled = true
AfterError(dis) == (dis \ {"Start"}) \cup {"Stop"}

\* The sensor's 'error' event: the platform has deactivated the sensor.
SensorError ==
  /\ Tick
  /\ pc = "idle"
  /\ \E i \in Insts :
       LET r == inst[i] IN
       /\ r.h \in SensorHandlers
       /\ r.sensor
       /\ inst' = [inst EXCEPT ![i] =
            [r EXCEPT !.msg = <<SensorFailedMsg(r.h)>>,
                      !.dis = AfterError(r.dis),
                      !.active = 0,
                      !.last = "error"]]
  /\ UNCHANGED <<output, dispVars, hostVars, listenerVars, workerVars>>

\* The values a sensor reports for one component of a reading, in
\* thousandths (x is 1.236 for 1236).
Readings == {1234, 1236}

\* The sensors whose reading is a quaternion.
OrientationHandlers == {"handleAbsoluteOrientationSensor", "handleRelativeOrientationSensor"}

\* The first line the reading listener writes.
ReadingLabel(h) ==
  CASE h = "handleAccelerometer" -> "Acceleration along the:"
    [] h = "handleLinearAccelerationSensor" -> "Linear acceleration along the:"
    [] h = "handleGyroscope" -> "Angular velocity along the:"
    [] h = "handleGravitySensor" -> "Gravity along the:"
    [] h = "handleMagnetometer" -> "Magnetic field along the:"
    [] h = "handleAbsoluteOrientationSensor" -> "Absolute orientation: "
    [] h = "handleRelativeOrientationSensor" -> "Relative orientation: "

\* value.toFixed(2): the nearest hundredth, a half upwards.
ToFixed2(v) ==
  CASE (v + 5) \div 10 = 123 -> "1.23"
    [] (v + 5) \div 10 = 124 -> "1.24"

\* value.toFixed(15): nothing of a value in thousandths is rounded away.
ToFixed15(v) ==
  CASE v = 1234 -> "1.234000000000000"
    [] v = 1236 -> "1.236000000000000"

\* The lines of one reading: the label and the formatted component.  (Every
\* component of a reading is formatted the same way; one is modelled.)
ReadingLines(h, v) ==
  <<ReadingLabel(h), IF h \in OrientationHandlers THEN ToFixed15(v) ELSE ToFixed2(v)>>

\* The lines of the reading are added to what the message area holds.
RenderReadingAppended(msg, h, v) == msg \o ReadingLines(h, v)

\* message.innerHTML = ... : the lines of the reading replace what the
\* message area holds.
RenderReading(msg, h, v) == ReadingLines(h, v)

\* The sensor's 'reading' event.  The ambient-light listener reads
\* sensor.illuminance, and no variable named sensor exists (line 1516).
SensorReading ==
  /\ Tick
  /\ pc = "idle"
  /\ \E i \in Insts, v \in Readings :
       LET r == inst[i] IN
       /\ r.h \in SensorHandlers
       /\ r.active > 0
       /\ IF r.h = "handleAmbientLightSensor"
          THEN inst' = [inst EXCEPT ![i] =
                 [r EXCEPT !.err = "ReferenceError: sensor is not defined",
                           !.value = v,
                           !.last = "readingThrew"]]
          ELSE inst' = [inst EXCEPT ![i] =
                 [r EXCEPT !.msg = RenderReading(r.msg, r.h, v),
                           !.value = v,
                           !.last = "reading"]]
  /\ UNCHANGED <<output, dispVars, hostVars, listenerVars, workerVars>>

\* ------------------------------------------------------------- battery
\* The values a BatteryManager can hold: charging, and the level in
\* thousandths of a full battery (battery.level is 0.8 for 800).
Levels == {800, 256}
BatteryValues == [charging : BOOLEAN, level : Levels]

\* battery.charging ? 'Yes' : 'No'
YesNo(charging) == IF charging THEN "Yes" ELSE "No"

\* The level times 100 with the fraction cut off.
PercentFloor(level) == level \div 10

\* (battery.level * 100).toFixed(0): the nearest integer, a half upwards.
Percent(level) == (level + 5) \div 10

\* The digits of the percentage followed by '%'.
PercentText(n) ==
  CASE n = 80 -> "80%"
    [] n = 26 -> "26%"
    [] n = 25 -> "25%"

\* writeBatteryInfo(): output.innerHTML is replaced by the lines of the
\* battery's values.  (The two lines of chargingTime and dischargingTime
\* are written the same way and are left out.)
writeBatteryInfo(i, b) ==
  << TextNode(i, "Bettery charging:"), TextNode(i, YesNo(b.charging)),
     TextNode(i, "Bettery level:"), TextNode(i, PercentText(Percent(b.level))) >>

\* navigator.getBattery() settles.  Resolved: writeBatteryInfo() and the four
\* change listeners; rejected: the promise has no catch.
BatterySettle ==
  /\ Tick
  /\ pc = "idle"
  /\ \E i \in Insts, ok \in BOOLEAN :
       /\ inst[i].h = "handleBatteryStatusAPI"
       /\ "getBattery" \in inst[i].pend
       /\ IF ok
          THEN /\ inst' = [inst EXCEPT ![i].pend = {}, ![i].st = "Ready"]
               /\ \E b \in BatteryValues :
                    /\ batteryListeners = <<>> \/ b = battery
                    /\ battery' = b
                    /\ output' = writeBatteryInfo(i, b)
               /\ batteryListeners' = Append(batteryListeners, i)
          ELSE /\ inst' = [inst EXCEPT ![i].pend = {}, ![i].st = "Rejected",
                                       ![i].err = "unhandledrejection: getBattery"]
               /\ UNCHANGED <<output, batteryListeners, battery>>
  /\ UNCHANGED <<dispVars, fullscreenElement, visibility, connListeners,
                 visListeners, workerVars>>

\* One of the four battery events: the BatteryManager holds new values and
\* every registered listener runs writeBatteryInfo(), the last registered
\* one last.
BatteryChange ==
  /\ Tick
  /\ pc = "idle"
  /\ batteryListeners # <<>>
  /\ \E b \in BatteryValues :
       /\ battery' = b
       /\ output' = writeBatteryInfo(batteryListeners[Len(batteryListeners)], b)
  /\ UNCHANGED <<inst, dispVars, fullscreenElement, visibility, listenerVars,
                 workerVars>>

\* The 'change' event of navigator.connection.
ConnectionChange ==
  /\ Tick
  /\ pc = "idle"
  /\ connListeners # <<>>
  /\ output' = SetText(connListeners[Len(connListeners)], "Current network type")
  /\ UNCHANGED <<inst, dispVars, hostVars, listenerVars, workerVars>>

\* ---------------------------------------- fullscreen, screen orientation
\* Click on 'Toggle Fullscreen': requestFullscreen() or exitFullscreen().
ClickToggleFullscreen ==
  /\ Tick
  /\ \E i \in Insts :
       /\ inst[i].h = "handleFullscreenAPI"
       /\ CanClick(i, "Toggle Fullscreen")
       /\ inst' = [inst EXCEPT ![i].pend = @ \cup
                     {IF fullscreenElement THEN "exitFullscreen" ELSE "requestFullscreen"},
                               ![i].last = "toggle"]
  /\ UNCHANGED <<output, dispVars, hostVars, listenerVars, workerVars>>

\* The fullscreen promise settles; only then() is attached to it.
FullscreenSettle ==
  /\ Tick
  /\ pc = "idle"
  /\ \E i \in Insts, op \in {"requestFullscreen", "exitFullscreen"}, ok \in BOOLEAN :
       /\ op \in inst[i].pend
       /\ IF ok
          THEN /\ inst' = [inst EXCEPT ![i].pend = @ \ {op},
                             ![i].msg = IF op = "requestFullscreen"
                                        THEN <<"You are on fullscreen mode now.">>
                                        ELSE <<"You left the fullscreen mode.">>]
               /\ fullscreenElement' = (op = "requestFullscreen")
          ELSE /\ inst' = [inst EXCEPT ![i].pend = @ \ {op},
                                       ![i].err = "unhandledrejection: fullscreen"]
               /\ UNCHANGED fullscreenElement
  /\ UNCHANGED <<output, dispVars, visibility, battery, listenerVars, workerVars>>

\* Click on 'Lock Portrait' / 'Lock Landscape': lockOrientation().
ClickLock ==
  /\ Tick
  /\ \E i \in Insts, b \in {"Lock Portrait", "Lock Landscape"} :
       /\ inst[i].h = "handleScreenOrientationAPI"
       /\ CanClick(i, b)
       /\ inst' = [inst EXCEPT ![i].pend = @ \cup {"lock"}, ![i].last = b]
  /\ UNCHANGED <<output, dispVars, hostVars, listenerVars, workerVars>>

\* screen.orientation.lock() settles: then() and catch() both write the message.
LockSettle ==
  /\ Tick
  /\ pc = "idle"
  /\ \E i \in Insts, ok \in BOOLEAN :
       /\ "lock" \in inst[i].pend
       /\ inst' = [inst EXCEPT ![i].pend = @ \ {"lock"},
                     ![i].msg = IF ok THEN <<"Locked to type">>
                                ELSE <<"Lock error: error">>]
  /\ UNCHANGED <<output, dispVars, hostVars, listenerVars, workerVars>>

\* Click on 'Unlock'.
ClickUnlock ==
  /\ Tick
  /\ \E i \in Insts :
       /\ inst[i].h = "handleScreenOrientationAPI"
       /\ CanClick(i, "Unlock")
       /\ inst' = [inst EXCEPT ![i].msg = <<"Orientation unlocked">>, ![i].last = "Unlock"]
  /\ UNCHANGED <<output, dispVars, hostVars, listenerVars, workerVars>>

\* ------------------------------------------------- vibration, badging
\* Click on either vibration button: navigator.vibrate().
ClickVibrate ==
  /\ Tick
  /\ \E i \in Insts, b \in {"Single Vibration", "Multiple Vibration"} :
       /\ inst[i].h = "handleVibrationAPI"
       /\ CanClick(i, b)
       /\ inst' = [inst EXCEPT ![i].last = b]
  /\ UNCHANGED <<output, dispVars, hostVars, listenerVars, workerVars>>

\* Click on 'Set App Badge' / 'Clear App Badge'.  Both call a method of
\* navigator that a host with setClientBadge alone does not have.
ClickBadge ==
  /\ Tick
  /\ \E i \in Insts, b \in {"Set App Badge", "Clear App Badge"} :
       /\ inst[i].h = "handleBadgingAPI"
       /\ CanClick(i, b)
       /\ IF inst[i].host = "setAppBadge"
          THEN inst' = [inst EXCEPT ![i].pend = @ \cup {b}, ![i].last = b]
          ELSE inst' = [inst EXCEPT ![i].err = "TypeError: not a function", ![i].last = b]
  /\ UNCHANGED <<output, dispVars, hostVars, listenerVars, workerVars>>

\* setAppBadge() / clearAppBadge() settles; only then() is attached.
BadgeSettle ==
  /\ Tick
  /\ pc = "idle"
  /\ \E i \in Insts, b \in {"Set App Badge", "Clear App Badge"}, ok \in BOOLEAN :
       /\ b \in inst[i].pend
       /\ IF ok
          THEN inst' = [inst EXCEPT ![i].pend = @ \ {b},
                          ![i].msg = IF b = "Set App Badge" THEN <<"Badge set to the app.">>
                                     ELSE <<"Badge cleared from the app.">>]
          ELSE inst' = [inst EXCEPT ![i].pend = @ \ {b},
                                    ![i].err = "unhandledrejection: badge"]
  /\ UNCHANGED <<output, dispVars, hostVars, listenerVars, workerVars>>

\* -------------------------------------------------------- page visibility
\* The instances among the visibilitychange listeners that have no leftTime.
NoLeftTime == {j \in 1..Len(visListeners) : ~inst[visListeners[j]].leftTime}

\* The 'hidden' branch asks for the permission and leaves leftTime alone.
HiddenNoLeftTime(r) == [r EXCEPT !.asking = @ + 1, !.last = "hidden"]

\* The 'hidden' branch of one listener: leftTime = new Date(), then
\* Notification.requestPermission(callback).
Hidden(r) == [r EXCEPT !.leftTime = TRUE, !.asking = @ + 1, !.last = "hidden"]

\* document.visibilityState changes; every registered listener runs.
VisibilityChange ==
  /\ Tick
  /\ pc = "idle"
  /\ IF visibility = "visible"
     THEN /\ visibility' = "hidden"
          /\ inst' = [i \in Insts |->
                        IF \E j \in 1..Len(visListeners) : visListeners[j] = i
                        THEN Hidden(inst[i])
                        ELSE inst[i]]
          /\ output' = output
     ELSE /\ visibility' = "visible"
          /\ inst' = [i \in Insts |->
                        IF \E j \in NoLeftTime : visListeners[j] = i
                        THEN [inst[i] EXCEPT !.err = "TypeError: leftTime is undefined",
                                             !.last = "visible"]
                        ELSE IF \E j \in 1..Len(visListeners) : visListeners[j] = i
                        THEN [inst[i] EXCEPT !.last = "visible"]
                        ELSE inst[i]]
          /\ LET wrote == {j \in 1..Len(visListeners) : j \notin NoLeftTime} IN
               output' = IF wrote = {} THEN output
                         ELSE SetText(visListeners[CHOOSE j \in wrote : \A m \in wrote : m <= j],
                                      "Welcome back!!!")
  /\ UNCHANGED <<dispVars, fullscreenElement, battery, listenerVars, workerVars>>

\* What Notification.requestPermission() hands to its callback.
NotificationPermissions == {"granted", "denied", "default"}

\* The callback goes on whatever the permission is.
ShowsNotificationAlways(permission) == TRUE

\* if (permission === 'granted')
ShowsNotification(permission) == permission = "granted"

\* The callback of Notification.requestPermission() runs: with 'granted' it
\* waits for navigator.serviceWorker.ready, which is a property of undefined
\* on a host without service workers.
NotificationPermissionSettle ==
  /\ Tick
  /\ pc = "idle"
  /\ \E i \in Insts, permission \in NotificationPermissions :
       LET r == inst[i] IN
       /\ r.asking > 0
       /\ inst' = [inst EXCEPT ![i] =
            IF ~ShowsNotification(permission)
            THEN [r EXCEPT !.asking = @ - 1, !.last = permission]
            ELSE IF registration = "unsupported"
            THEN [r EXCEPT !.asking = @ - 1, !.last = permission,
                           !.err = "TypeError: navigator.serviceWorker is undefined"]
            ELSE [r EXCEPT !.asking = @ - 1, !.ready = @ + 1, !.last = permission]]
  /\ UNCHANGED <<output, dispVars, hostVars, listenerVars, workerVars>>

\* navigator.serviceWorker.ready resolves once the registration has an
\* active worker: registration.showNotification('Come back, please!!!').
ReadySettle ==
  /\ Tick
  /\ pc = "idle"
  /\ sw \in {"activating", "activated"}
  /\ \E i \in Insts :
       /\ inst[i].ready > 0
       /\ inst' = [inst EXCEPT ![i].ready = @ - 1, ![i].notified = @ + 1,
                               ![i].last = "showNotification"]
  /\ UNCHANGED <<output, dispVars, hostVars, listenerVars, workerVars>>

\* ----------------------------------------------------------- idle detection
\* Click on 'Request Permission'.
ClickIdlePermission ==
  /\ Tick
  /\ \E i \in Insts :
       /\ inst[i].h = "handleIdleDetectionAPI"
       /\ CanClick(i, "Request Permission")
       /\ inst' = [inst EXCEPT ![i].pend = @ \cup {"requestPermission"},
                               ![i].last = "Request Permission"]
  /\ UNCHANGED <<output, dispVars, hostVars, listenerVars, workerVars>>

\* IdleDetector.requestPermission() settles; only then() is attached.
IdlePermissionSettle ==
  /\ Tick
  /\ pc = "idle"
  /\ \E i \in Insts, ok \in BOOLEAN :
       /\ "requestPermission" \in inst[i].pend
       /\ IF ok
          THEN inst' = [inst EXCEPT ![i].pend = @ \ {"requestPermission"},
                                    ![i].msg = <<"Permission: state">>]
          ELSE inst' = [inst EXCEPT ![i].pend = @ \ {"requestPermission"},
                                    ![i].err = "unhandledrejection: requestPermission"]
  /\ UNCHANGED <<output, dispVars, hostVars, listenerVars, workerVars>>

\* Click on 'Start Listening': a new IdleDetector is constructed and started.
\* No statement of the listener is inside a try block: when the constructor
\* throws, the exception leaves the listener.
ClickDetection ==
  /\ Tick
  /\ \E i \in Insts, threw \in BOOLEAN :
       /\ inst[i].h = "handleIdleDetectionAPI"
       /\ CanClick(i, "Start Listening")
       /\ inst[i].starting + inst[i].active < MaxHandles
       /\ IF threw
          THEN inst' = [inst EXCEPT ![i].err = "Error: new IdleDetector()",
                                    ![i].last = "constructThrew"]
          ELSE inst' = [inst EXCEPT ![i].starting = @ + 1, ![i].last = "Start Listening"]
  /\ UNCHANGED <<output, dispVars, hostVars, listenerVars, workerVars>>

\* idleDetector.start() settles.  Resolved: the button is disabled; rejected:
\* the promise has no catch.
DetectionSettle ==
  /\ Tick
  /\ pc = "idle"
  /\ \E i \in Insts, ok \in BOOLEAN :
       /\ inst[i].starting > 0
       /\ IF ok
          THEN inst' = [inst EXCEPT ![i].starting = @ - 1, ![i].active = @ + 1,
                                    ![i].dis = @ \cup {"Start Listening"}]
          ELSE inst' = [inst EXCEPT ![i].starting = @ - 1,
                                    ![i].err = "unhandledrejection: IdleDetector.start"]
  /\ UNCHANGED <<output, dispVars, hostVars, listenerVars, workerVars>>

\* The 'change' event of a started detector appends a line to the message.
IdleChange ==
  /\ Tick
  /\ pc = "idle"
  /\ \E i \in Insts :
       /\ inst[i].h = "handleIdleDetectionAPI"
       /\ inst[i].active > 0
       /\ Len(inst[i].msg) < MaxMsgParts
       /\ inst' = [inst EXCEPT ![i].msg = Append(@, "Idle change")]
  /\ UNCHANGED <<output, dispVars, hostVars, listenerVars, workerVars>>

\* Click on 'Clock': setInterval(); the interval is never cleared.
ClickClock ==
  /\ Tick
  /\ \E i \in Insts :
       /\ inst[i].h = "handleIdleDetectionAPI"
       /\ CanClick(i, "Clock")
       /\ inst[i].timers < MaxHandles
       /\ inst' = [inst EXCEPT ![i].timers = @ + 1,
                               ![i].seconds = Append(@, 0),
                               ![i].queue = Append(@, inst[i].timers + 1),
                               ![i].last = "Clock"]
  /\ UNCHANGED <<output, dispVars, hostVars, listenerVars, workerVars>>

\* The interval that is due fires: seconds++, and the button shows the
\* seconds of that interval.  Every interval fires once a second, so the
\* one that fired is due again after all the others, and an interval set by
\* a click is due after all that exist.
ClockTick ==
  /\ Tick
  /\ pc = "idle"
  /\ \E i \in Insts :
       /\ inst[i].queue # <<>>
       /\ LET t == Head(inst[i].queue) IN
            inst' = [inst EXCEPT ![i].seconds[t] = @ + 1,
                                 ![i].queue = Append(Tail(@), t),
                                 ![i].shown = inst[i].seconds[t] + 1,
                                 ![i].last = "tick"]
  /\ UNCHANGED <<output, dispVars, hostVars, listenerVars, workerVars>>

\* ------------------------------------------------------------- wake lock
\* navigator.wakeLock.request('screen') settles.  Resolved: the text and the
\* Release button replace the output region; rejected: no catch.
WakeLockSettle ==
  /\ Tick
  /\ pc = "idle"
  /\ \E i \in Insts, ok \in BOOLEAN :
       /\ "request" \in inst[i].pend
       /\ IF ok
          THEN /\ inst' = [inst EXCEPT ![i].pend = @ \ {"request"}, ![i].st = "Ready",
                                       ![i].ctl = <<"Release screen">>, ![i].active = 1]
               /\ output' = AppendAll(SetText(i, "Wake Lock is active!"), i, <<"Release screen">>)
          ELSE /\ inst' = [inst EXCEPT ![i].pend = @ \ {"request"}, ![i].st = "Rejected",
                                       ![i].err = "unhandledrejection: wakeLock.request"]
               /\ output' = output
  /\ UNCHANGED <<dispVars, hostVars, listenerVars, workerVars>>

\* Click on 'Release screen': sentinel.release().
ClickRelease ==
  /\ Tick
  /\ \E i \in Insts :
       /\ inst[i].h = "handleScreenWakeLockAPI"
       /\ CanClick(i, "Release screen")
       /\ inst' = [inst EXCEPT ![i].pend = @ \cup {"release"}, ![i].last = "release"]
  /\ UNCHANGED <<output, dispVars, hostVars, listenerVars, workerVars>>

\* sentinel.release() resolves: the text replaces the output region.
ReleaseSettle ==
  /\ Tick
  /\ pc = "idle"
  /\ \E i \in Insts :
       /\ "release" \in inst[i].pend
       /\ inst' = [inst EXCEPT ![i].pend = @ \ {"release"}, ![i].active = 0,
                               ![i].last = "released"]
       /\ output' = SetText(i, "Wake Lock deactivated.")
  /\ UNCHANGED <<dispVars, hostVars, listenerVars, workerVars>>

\* ------------------------------------------------------------ geolocation
\* The positions the platform reports: latitude, longitude, accuracy.
Positions == << [lat |-> 37, lon |-> -122, acc |-> 10],
                [lat |-> -34, lon |-> 151, acc |-> 25] >>

\* A number interpolated into a template literal: its decimal digits.
NumText(n) ==
  CASE n = 37 -> "37"
    [] n = -122 -> "-122"
    [] n = 10 -> "10"
    [] n = -34 -> "-34"
    [] n = 151 -> "151"
    [] n = 25 -> "25"

\* Latitude and longitude change places in the block.
PositionBlockSwapped(title, p) ==
  <<title, "Latitude:", NumText(p.lon), "Longitude:", NumText(p.lat),
    "More or less", NumText(p.acc), "meters.">>

\* The block both success callbacks render: the title, then the latitude,
\* the longitude and the accuracy of position.coords interpolated.
PositionBlock(title, p) ==
  <<title, "Latitude:", NumText(p.lat), "Longitude:", NumText(p.lon),
    "More or less", NumText(p.acc), "meters.">>

\* Click on 'Current Position': one getCurrentPosition() call.
ClickCurrentPosition ==
  /\ Tick
  /\ \E i \in Insts :
       /\ inst[i].h = "handleGeolocationAPI"
       /\ CanClick(i, "Current Position")
       /\ inst' = [inst EXCEPT ![i].requests = @ + 1,
                               ![i].last = "Current Position"]
  /\ UNCHANGED <<output, dispVars, hostVars, listenerVars, workerVars>>

\* The success or the error callback of one getCurrentPosition() call runs.
CurrentPositionSettle ==
  /\ Tick
  /\ pc = "idle"
  /\ \E i \in Insts, ok \in BOOLEAN, p \in 1..Len(Positions) :
       /\ inst[i].renders < inst[i].requests
       /\ inst' = [inst EXCEPT
                     ![i].renders = @ + 1,
                     ![i].value = IF ok THEN p ELSE 0,
                     ![i].last = IF ok THEN "positionOk" ELSE "positionFailed",
                     ![i].msg = IF ok THEN PositionBlock("Current Position:", Positions[p])
                                ELSE <<"Geolocation failed to get the current position.">>]
  /\ UNCHANGED <<output, dispVars, hostVars, listenerVars, workerVars>>

\* The listener disables the one-shot button only.
AfterWatchOneShotOnly(dis) == dis \cup {"Current Position"}

\* buttonCurrentPosition.disabled = true; buttonWatchPosition.disabled = true
AfterWatch(dis) == dis \cup {"Current Position", "Watch Position"}

\* Click on 'Watch Position': both buttons are disabled, watchPosition().
ClickWatchPosition ==
  /\ Tick
  /\ \E i \in Insts :
       /\ inst[i].h = "handleGeolocationAPI"
       /\ CanClick(i, "Watch Position")
       /\ inst[i].active < MaxHandles
       /\ inst' = [inst EXCEPT ![i].dis = AfterWatch(@),
                               ![i].active = @ + 1, ![i].last = "Watch Position"]
  /\ UNCHANGED <<output, dispVars, hostVars, listenerVars, workerVars>>

\* The success or the error callback of the watch runs.
WatchUpdate ==
  /\ Tick
  /\ pc = "idle"
  /\ \E i \in Insts, ok \in BOOLEAN, p \in 1..Len(Positions) :
       /\ inst[i].h = "handleGeolocationAPI"
       /\ inst[i].active > 0
       /\ inst' = [inst EXCEPT
                     ![i].value = IF ok THEN p ELSE 0,
                     ![i].last = IF ok THEN "watchOk" ELSE "watchFailed",
                     ![i].msg = IF ok THEN PositionBlock("Watching Position:", Positions[p])
                                ELSE <<"Geolocation failed to watch position.">>]
  /\ UNCHANGED <<output, dispVars, hostVars, listenerVars, workerVars>>

\* ------------------------------------------------------------ permissions
\* Two of the names the dropdown offers.
PermissionNames == {"geolocation", "camera"}

\* Remove the q-th element of a sequence.
RemoveAt(seq, q) == [k \in 1..(Len(seq) - 1) |-> IF k < q THEN seq[k] ELSE seq[k + 1]]

\* State for <permissionStatus.name || selectedOption>: <state>, where both
\* names are the name this query was made with.
StateLine(name, state) ==
  CASE name = "geolocation" /\ state = "granted" -> "State for geolocation: granted"
    [] name = "geolocation" /\ state = "denied" -> "State for geolocation: denied"
    [] name = "geolocation" /\ state = "prompt" -> "State for geolocation: prompt"
    [] name = "camera" /\ state = "granted" -> "State for camera: granted"
    [] name = "camera" /\ state = "denied" -> "State for camera: denied"
    [] name = "camera" /\ state = "prompt" -> "State for camera: prompt"

\* The user picks another permission in the dropdown: one query is made.
PermissionSelect ==
  /\ Tick
  /\ \E i \in Insts, name \in PermissionNames :
       /\ inst[i].h = "handlePermissionsAPI"
       /\ CanClick(i, "select")
       /\ name # inst[i].option
       /\ inst' = [inst EXCEPT ![i].option = name,
                               ![i].queries = Append(@, name),
                               ![i].last = "select"]
  /\ UNCHANGED <<output, dispVars, hostVars, listenerVars, workerVars>>

\* One of the queries in flight settles.  Resolved: the state is written
\* and a change listener is added to the PermissionStatus; rejected: the
\* promise has no catch.
PermissionSettle ==
  /\ Tick
  /\ pc = "idle"
  /\ \E i \in Insts, ok \in BOOLEAN, state \in PermissionStates :
       \E q \in 1..Len(inst[i].queries) :
         LET r == inst[i] IN
         /\ r.h = "handlePermissionsAPI"
         /\ IF ok
            THEN inst' = [inst EXCEPT ![i] =
                   [r EXCEPT !.queries = RemoveAt(r.queries, q),
                             !.msg = <<StateLine(r.queries[q], state)>>,
                             !.listening = TRUE,
                             !.last = "resolved"]]
            ELSE /\ state = "prompt"
                 /\ inst' = [inst EXCEPT ![i] =
                      [r EXCEPT !.queries = RemoveAt(r.queries, q),
                                !.err = "unhandledrejection: permissions.query",
                                !.last = "rejected"]]
  /\ UNCHANGED <<output, dispVars, hostVars, listenerVars, workerVars>>

\* The 'change' event of a PermissionStatus appends a line to the message.
PermissionStatusChange ==
  /\ Tick
  /\ pc = "idle"
  /\ \E i \in Insts :
       /\ inst[i].listening
       /\ Len(inst[i].msg) < MaxMsgParts
       /\ inst' = [inst EXCEPT ![i].msg = Append(@, "Changed state for")]
  /\ UNCHANGED <<output, dispVars, hostVars, listenerVars, workerVars>>

\* ------------------------------------------- service worker registration
\* The register() promise resolves: the script was fetched and evaluated, and
\* the worker is the registration's installing worker.  No then() is attached.
RegisterResolve ==
  /\ pc = "idle"
  /\ registration = "pending"
  /\ registration' = "registered"
  /\ sw' = "installing"
  /\ lifecycle' = Append(lifecycle, "installing")
  /\ UNCHANGED <<pageVars, registerCalls, consoleLog, skipWaitingFlag, claim,
                 controlled, fetches>>

\* The catch handler also calls register() again.
RegisterRejectRetrying ==
  /\ pc = "idle"
  /\ registration = "pending"
  /\ registerCalls < 2
  /\ registerCalls' = registerCalls + 1
  /\ consoleLog' = consoleLog \cup {"Service Worker failed to register:"}
  /\ UNCHANGED <<pageVars, registration, sw, skipWaitingFlag, claim, controlled,
                 lifecycle, fetches>>

\* The register() promise rejects: the catch handler logs the error.
RegisterReject ==
  /\ pc = "idle"
  /\ registration = "pending"
  /\ registration' = "failed"
  /\ consoleLog' = consoleLog \cup {"Service Worker failed to register:"}
  /\ UNCHANGED <<pageVars, registerCalls, sw, skipWaitingFlag, claim, controlled,
                 lifecycle, fetches>>

\* ------------------------------------------------------- service worker
\* The install listener: self.skipWaiting() sets the skip-waiting flag.
InstallListener(flag) == TRUE

\* The install event: the listener runs; it does not extend the event, so the
\* installation is complete when it returns.
InstallEvent ==
  /\ sw = "installing"
  /\ skipWaitingFlag' = InstallListener(skipWaitingFlag)
  /\ lifecycle' = IF skipWaitingFlag' THEN Append(lifecycle, "skipWaiting") ELSE lifecycle
  /\ sw' = "installed"
  /\ UNCHANGED <<pageVars, registration, registerCalls, consoleLog, claim, controlled,
                 fetches>>

\* The platform activates the installed worker.  On a first visit no older
\* worker is in use; where one is, the skip-waiting flag set during install
\* lets the activation proceed just the same.
Activate ==
  /\ sw = "installed"
  /\ sw' = "activating"
  /\ lifecycle' = Append(lifecycle, "activating")
  /\ UNCHANGED <<pageVars, registration, registerCalls, consoleLog, skipWaitingFlag,
                 claim, controlled, fetches>>

\* The activate event: the listener calls clients.claim().
ActivateEvent ==
  /\ sw = "activating"
  /\ claim = "none"
  /\ claim' = "pending"
  /\ lifecycle' = Append(lifecycle, "claim")
  /\ UNCHANGED <<pageVars, registration, registerCalls, consoleLog, sw, skipWaitingFlag,
                 controlled, fetches>>

\* clients.claim() resolves: the worker controls the open page.  (It rejects
\* only for a worker that is not the active worker, which the worker is from
\* the moment the activate event fires.)
ClaimSettle ==
  /\ claim = "pending"
  /\ claim' = "resolved"
  /\ controlled' = TRUE
  /\ lifecycle' = Append(lifecycle, "claimed")
  /\ UNCHANGED <<pageVars, registration, registerCalls, consoleLog, sw, skipWaitingFlag,
                 fetches>>

\* The listener calls clients.claim() without event.waitUntil(): the event
\* is over as soon as the listener has returned.
WaitUntilIgnored(c) == c \in {"pending", "resolved"}

\* event.waitUntil(clients.claim()): the activate event is over when the
\* promise handed to waitUntil has settled.
WaitUntil(c) == c = "resolved"

\* The platform ends the activation once the activate event is over.
Activated ==
  /\ sw = "activating"
  /\ WaitUntil(claim)
  /\ sw' = "activated"
  /\ lifecycle' = Append(lifecycle, "active")
  /\ UNCHANGED <<pageVars, registration, registerCalls, consoleLog, skipWaitingFlag,
                 claim, controlled, fetches>>

\* The requests the controlled page makes.
Requests == {[url |-> "/", method |-> "GET"],
             [url |-> "/js/scripts.js", method |-> "GET"],
             [url |-> "/api", method |-> "POST"]}

NoRequest == [url |-> "", method |-> ""]

\* The listener fetches the request's URL: the method is lost.
FetchArgumentUrl(req) == [req EXCEPT !.method = "GET"]

\* What the fetch listener hands to fetch(): event.request itself.
FetchArgument(req) == req

\* Lines 29-35, the fetch listener: one respondWith() call, whose promise is
\* that of one fetch() of the event's request; no cache is opened.
OnFetch(req) ==
  [request |-> req,
   respondWith |-> 1,                     \* calls of event.respondWith()
   forwarded |-> <<FetchArgument(req)>>,  \* the requests handed to fetch()
   cacheOps |-> 0,                        \* reads and writes of a cache
   net |-> "pending",                     \* the promise of fetch()
   page |-> "pending",                    \* what the page's request got
   body |-> NoRequest]                    \* the request the page's response answers

\* A fetch event of the controlled page reaches the active worker.
FetchEvent ==
  /\ sw = "activated"
  /\ controlled
  /\ Len(fetches) < MaxFetches
  /\ \E req \in Requests : fetches' = Append(fetches, OnFetch(req))
  /\ UNCHANGED <<pageVars, registration, registerCalls, consoleLog, sw, skipWaitingFlag,
                 claim, controlled, lifecycle>>

\* A failed fetch is answered with a response of the worker's own.
RespondWithFallback(f, ok) ==
  IF ok
  THEN [f EXCEPT !.net = "ok", !.page = "response", !.body = f.forwarded[Len(f.forwarded)]]
  ELSE [f EXCEPT !.net = "failed", !.page = "response"]

\* respondWith(p): the page's request settles the way p does, fulfilled with
\* the network's response to the forwarded request or failed.
RespondWith(f, ok) ==
  IF ok
  THEN [f EXCEPT !.net = "ok", !.page = "response", !.body = f.forwarded[Len(f.forwarded)]]
  ELSE [f EXCEPT !.net = "failed", !.page = "failed"]

\* The network answers a forwarded request, or fails.
NetworkSettle ==
  /\ \E k \in 1..Len(fetches), ok \in BOOLEAN :
       /\ fetches[k].net = "pending"
       /\ fetches' = [fetches EXCEPT ![k] = RespondWith(fetches[k], ok)]
  /\ UNCHANGED <<pageVars, registration, registerCalls, consoleLog, sw, skipWaitingFlag,
                 claim, controlled, lifecycle>>

\* A selector change while the worker goes through its life.
LoadSelectorChange == changes < MaxLoadChanges /\ SelectorChange

\* ---------------------------------------------------------- specification
Next ==
  \/ SelectorChange
  \/ Dispatch
  \/ QueryResolve
  \/ QueryReject
  \/ ClickStart
  \/ ClickStop
  \/ SensorError
  \/ SensorReading
  \/ BatterySettle
  \/ BatteryChange
  \/ ConnectionChange
  \/ ClickToggleFullscreen
  \/ FullscreenSettle
  \/ ClickLock
  \/ LockSettle
  \/ ClickUnlock
  \/ ClickVibrate
  \/ ClickBadge
  \/ BadgeSettle
  \/ VisibilityChange
  \/ NotificationPermissionSettle
  \/ ClickIdlePermission
  \/ IdlePermissionSettle
  \/ ClickDetection
  \/ DetectionSettle
  \/ IdleChange
  \/ ClickClock
  \/ WakeLockSettle
  \/ ClickRelease
  \/ ReleaseSettle
  \/ ClickCurrentPosition
  \/ CurrentPositionSettle
  \/ ClickWatchPosition
  \/ WatchUpdate
  \/ PermissionSelect
  \/ PermissionSettle
  \/ PermissionStatusChange

Spec == Init /\ [][Next]_vars

\* The page load on either kind of host, the registration, the worker's life
\* and the fetch events it answers, beside the feature dispatcher and the
\* page-visibility listener, which shows its notification through the
\* registration.
WorkerInit == InitPage /\ \E supported \in BOOLEAN : InitWorker(supported)

WorkerNext ==
  \/ RegisterResolve
  \/ RegisterReject
  \/ InstallEvent
  \/ Activate
  \/ ActivateEvent
  \/ ClaimSettle
  \/ Activated
  \/ FetchEvent
  \/ NetworkSettle
  \/ LoadSelectorChange
  \/ Dispatch
  \/ VisibilityChange
  \/ NotificationPermissionSettle
  \/ ReadySettle

WorkerSpec == WorkerInit /\ [][WorkerNext]_vars

\* Selector changes explored between the sensor features.
MaxSensorChanges == 3

\* The options of two sensor features, one permission and three permissions.
SensorOptions == {"accelerometer", "absolute-orientation"}

\* The user goes back and forth between the two sensor features.
SensorSelectorChange ==
  /\ changes < MaxSensorChanges
  /\ \E tag \in SensorOptions : Select(tag)

\* The two sensor features selected again and again, and the answers to the
\* permission queries of every invocation.
SensorNext ==
  \/ SensorSelectorChange
  \/ Dispatch
  \/ QueryResolve
  \/ QueryReject

SensorSpec == Init /\ [][SensorNext]_vars

\* Selector changes explored between page visibility and another feature.
MaxVisibilityChanges == 4

\* The options of the page-visibility feature and of one other feature.
VisibilityOptions == {"page-visibility", "vibration"}

\* The user goes back and forth between the two features.
VisibilitySelectorChange ==
  /\ changes < MaxVisibilityChanges
  /\ \E tag \in VisibilityOptions : Select(tag)

\* Page visibility selected again and again, the page hidden and shown, and
\* the answers to the notification permission requests.
VisibilityNext ==
  \/ VisibilitySelectorChange
  \/ Dispatch
  \/ VisibilityChange
  \/ NotificationPermissionSettle

VisibilitySpec == Init /\ [][VisibilityNext]_vars

\* The options of the idle-detection feature and of one other feature.
ClockOptions == {"idle-detection", "vibration"}

\* The user selects one of the two features.
ClockSelectorChange ==
  /\ changes < MaxChanges
  /\ \E tag \in ClockOptions : Select(tag)

\* The Clock button of the idle-detection feature and its intervals, beside
\* the feature's permission button.
ClockNext ==
  \/ ClockSelectorChange
  \/ Dispatch
  \/ ClickClock
  \/ ClockTick
  \/ ClickIdlePermission
  \/ IdlePermissionSettle

ClockSpec == Init /\ [][ClockNext]_vars

\* ================================================================ claims
MultiPermissionHandlers == {"handleAbsoluteOrientationSensor", "handleRelativeOrientationSensor"}

\* Index of the first result that is not 'granted' (0 when all are).
FirstUngranted(res) ==
  IF \A k \in 1..Len(res) : res[k] = "granted" THEN 0
  ELSE CHOOSE k \in 1..Len(res) : res[k] # "granted" /\ \A m \in 1..(k - 1) : res[m] = "granted"

\* Control b of instance i exists and is enabled / is disabled.
Enabled(i, b) == (\E j \in 1..Len(inst[i].ctl) : inst[i].ctl[j] = b) /\ b \notin inst[i].dis
Disabled(i, b) == b \in inst[i].dis

\* Every capability handle that is active: started sensors, held wake locks,
\* started idle detectors, position watches, interval timers.
ActiveHandles ==
  {x \in Insts \X {"handle", "timer"} \X (1..MaxHandles) :
     x[3] <= (IF x[2] = "handle" THEN inst[x[1]].active ELSE inst[x[1]].timers)}

\* C1: inside the feature selector's change listener, before the switch has
\* called any handler, the output region is empty, whatever it held before.
C1_OutputClearedBeforeHandler ==
  pc = "dispatch" => (output = <<>> /\ invoked = <<>>)

\* C1 witness: the change listener has just removed content an earlier
\* handler left, and the handler of the new selection has not run yet.
C1_Witness == pc = "dispatch" /\ wiped > 0 /\ changes = 2

\* C2: after every selector change the dispatcher has invoked exactly one
\* handler, the newest closure belongs to it, and the switch maps no other
\* of the 19 tags to that handler.
C2_ExactlyOneHandler ==
  (pc = "idle" /\ changes > 0) =>
     /\ Len(invoked) = 1
     /\ invoked[1] # NoHandler
     /\ inst[Len(inst)].h = invoked[1]
     /\ \A t \in Tags \ {selected} : HandlerOf(t) # invoked[1]

\* C2 witness: the last of the 19 tags was selected and its handler ran.
C2_Witness ==
  /\ pc = "idle"
  /\ selected = "relative-orientation"
  /\ invoked = <<"handleRelativeOrientationSensor">>
  /\ changes = 2

\* C3 (as claimed): whenever a handler's presence check fails during a
\* dispatch, the output region afterwards is exactly that handler's fixed
\* text, no control was created in that dispatch, and the handler issued no
\* query, holds no handle and registered no listener.
C3_UnsupportedOnlyMessage ==
  [][(pc = "dispatch" /\ pc' = "idle") =>
       \A i \in (Len(inst) + 1)..Len(inst') :
          inst'[i].st = "Unsupported" =>
            /\ \/ output' = SetText(i, NotSupportedMsg(inst'[i].h))
               \/ inst'[i].h \in SensorHandlers /\ output' = SetText(i, NoPermissionApiMsg)
            /\ \A j \in (Len(inst) + 1)..Len(inst') : inst'[j].ctl = <<>>
            /\ inst'[i].issued = {} /\ inst'[i].pend = {} /\ inst'[i].active = 0
            /\ connListeners' = connListeners /\ visListeners' = visListeners]_vars

\* C4: a sensor handler one of whose permission queries returned a state
\* other than 'granted' is Denied, has created no control and constructed no
\* sensor; and the step that denies it leaves exactly the denial text of the
\* queried permission in the output region.
C4_DeniedNoControls ==
  /\ [](\A i \in Insts :
          (inst[i].h \in SensorHandlers /\ FirstUngranted(inst[i].results) # 0) =>
             (inst[i].st = "Denied" /\ inst[i].ctl = <<>> /\ ~inst[i].sensor
              /\ inst[i].active = 0))
  /\ [][\A i \in Insts :
          (inst[i].h \in SensorHandlers
           /\ Len(inst'[i].results) = Len(inst[i].results) + 1
           /\ inst'[i].results[Len(inst'[i].results)] # "granted") =>
             output' = SetText(i, DenialMsg(SensorPerms(inst[i].h)[Len(inst'[i].results)]))]_vars

\* C4 witness: the accelerometer handler was answered 'denied' and the output
\* region holds the accelerometer denial text.
C4_Witness ==
  \E i \in Insts :
    /\ inst[i].h = "handleAccelerometer"
    /\ inst[i].results = <<"denied">>
    /\ output = SetText(i, "You are not autorized to use the accelerometer sensor.")

\* C5 (as claimed): no sensor has had start() return twice with no stop()
\* in between.
C5_NoSecondStartWithoutStop ==
  \A i \in Insts : inst[i].h \in SensorHandlers => inst[i].starts <= 1

\* C5 (amended): start() is never called on a started sensor; while a sensor
\* is started its Start button is disabled; and once an idle detector has
\* started, 'Start Listening' is disabled.
C5_NoStartWhileStarted ==
  \A i \in Insts :
    /\ inst[i].h \in SensorHandlers =>
         (~inst[i].restarted /\ (inst[i].active > 0 => Disabled(i, "Start")))
    /\ inst[i].h = "handleIdleDetectionAPI" =>
         (inst[i].active > 0 => Disabled(i, "Start Listening"))

\* C5 witness: a sensor that was started, reported an error and was started
\* again is running with Start disabled.
C5_Witness ==
  \E i \in Insts :
    /\ inst[i].h \in SensorHandlers
    /\ inst[i].starts = 2
    /\ inst[i].active = 1
    /\ Disabled(i, "Start")

\* C6 (as claimed): after a Stop or Release click has been processed, the
\* handler's Start control is enabled and its Stop/Release control disabled.
C6_StopReenablesStart ==
  \A i \in Insts :
    /\ inst[i].last \in {"stop", "stopThrew"} => (Enabled(i, "Start") /\ Disabled(i, "Stop"))
    /\ inst[i].last = "released" => (Enabled(i, "Start") /\ Disabled(i, "Release screen"))

\* C6 (amended): after a Stop click whose stop() returned, the sensor is
\* stopped, Start is enabled and Stop is disabled; after one whose stop()
\* threw, Start is still disabled and Stop still enabled; after a Release
\* click has resolved, the lock is released, the Release button is out of the
\* output region and the handler has no Start control.
C6_StopReturnedReenablesStart ==
  \A i \in Insts :
    /\ inst[i].last = "stop" =>
         (Enabled(i, "Start") /\ Disabled(i, "Stop") /\ inst[i].active = 0)
    /\ inst[i].last = "stopThrew" => (Disabled(i, "Start") /\ Enabled(i, "Stop"))
    /\ inst[i].last = "released" =>
         (inst[i].active = 0 /\ ~Attached(i, "Release screen") /\ ~Enabled(i, "Start"))

\* C6 witness: a started sensor was stopped and can be started again.
C6_Witness ==
  \E i \in Insts :
    /\ inst[i].h \in SensorHandlers
    /\ inst[i].last = "stop"
    /\ inst[i].starts = 0
    /\ Enabled(i, "Start")
    /\ Attached(i, "Start")

\* C7 (as claimed): at most one capability handle is active.
C7_AtMostOneActiveHandle == Cardinality(ActiveHandles) <= 1

\* C8: a multi-permission handler has controls or a sensor only if every one
\* of its permissions was answered 'granted', in declared order; and the step
\* in which a query is answered otherwise leaves in the output region the
\* denial text of the first ungranted permission in declared order.
C8_AllGrantedOrFirstDenial ==
  /\ [](\A i \in Insts :
          inst[i].h \in MultiPermissionHandlers =>
            /\ (inst[i].ctl # <<>> \/ inst[i].sensor) =>
                  (/\ Len(inst[i].results) = Len(SensorPerms(inst[i].h))
                   /\ FirstUngranted(inst[i].results) = 0)
            /\ inst[i].st = "Denied" => FirstUngranted(inst[i].results) = Len(inst[i].results))
  /\ [][\A i \in Insts :
          (inst[i].h \in MultiPermissionHandlers
           /\ inst[i].st = "Pending" /\ inst'[i].st = "Denied") =>
             output' = SetText(i,
                         DenialMsg(SensorPerms(inst[i].h)[FirstUngranted(inst'[i].results)]))]_vars

\* C8 witness: absolute orientation with accelerometer granted and gyroscope
\* on 'prompt' shows the gyroscope denial text and has no controls.
C8_Witness ==
  \E i \in Insts :
    /\ inst[i].h = "handleAbsoluteOrientationSensor"
    /\ inst[i].results = <<"granted", "prompt">>
    /\ inst[i].st = "Denied"
    /\ inst[i].ctl = <<>>
    /\ output = SetText(i, "You are not autorized to use the gyroscope sensor.")

\* C9: in every sensor handler invocation the queries issued are the first n
\* declared ones, at most one of them is unanswered, and every query before
\* an issued one was answered 'granted'.
C9_QueriesInSequence ==
  \A i \in Insts :
    inst[i].h \in SensorHandlers =>
      LET n == Cardinality(inst[i].issued) IN
        /\ inst[i].issued = 1..n
        /\ n <= Len(SensorPerms(inst[i].h))
        /\ Len(inst[i].results) <= n
        /\ n <= Len(inst[i].results) + 1
        /\ \A k \in 1..(n - 1) : inst[i].results[k] = "granted"

\* C9 witness: absolute orientation has issued its third query after two
\* 'granted' answers and is waiting for it.
C9_Witness ==
  \E i \in Insts :
    /\ inst[i].h = "handleAbsoluteOrientationSensor"
    /\ inst[i].st = "Pending"
    /\ inst[i].issued = {1, 2, 3}
    /\ inst[i].results = <<"granted", "granted">>

\* C10 (as claimed): no error ever escapes a listener or a promise chain.
C10_NoErrorEscapes == \A i \in Insts : inst[i].err = ""

\* The handlers that construct, start or stop a handle inside a listener.
HandleHandlers == SensorHandlers \cup {"handleIdleDetectionAPI"}

\* C11 (as claimed): in the sensor handlers and the idle-detection handler,
\* an exception the platform throws while a handle is constructed, started or
\* stopped never leaves the listener it was thrown in, and the message area
\* shows its text.
C11_PlatformErrorsCaught ==
  \A i \in Insts :
    inst[i].h \in HandleHandlers =>
      /\ inst[i].st = "Failed" =>
           (inst[i].msg = <<SensorErrorMsg(inst[i].h)>> /\ inst[i].err = "")
      /\ inst[i].last = "startThrew" =>
           inst[i].msg = <<"It was not possible to start the sensor: error">>
      /\ inst[i].last = "stopThrew" =>
           inst[i].msg = <<"It was not possible to stop the sensor: error">>
      /\ inst[i].last = "constructThrew" =>
           (inst[i].msg # <<>> /\ inst[i].err = "")
      /\ inst[i].err # "Error: new IdleDetector()"

\* C12: whenever the last event a sensor handler processed is the sensor's
\* 'error' event, whatever came before it, the message is '<Sensor> failed:
\* <error>', Start is enabled, Stop is disabled and the sensor is not running.
C12_ErrorReturnsToIdle ==
  \A i \in Insts :
    (inst[i].h \in SensorHandlers /\ inst[i].last = "error") =>
      /\ inst[i].msg = <<SensorFailedMsg(inst[i].h)>>
      /\ Enabled(i, "Start")
      /\ Disabled(i, "Stop")
      /\ inst[i].active = 0

\* C13: a sensor handler whose constructor threw shows the text of the
\* catch, has Start and Stop disabled and no sensor object; no later event
\* changes anything of it; and no handler ever calls start() or stop() on a
\* sensor variable that holds no object.
C13_ConstructionFailedTerminal ==
  /\ [](\A i \in Insts :
          /\ inst[i].st = "Failed" =>
               /\ inst[i].msg = <<SensorErrorMsg(inst[i].h)>>
               /\ Disabled(i, "Start") /\ Disabled(i, "Stop")
               /\ ~inst[i].sensor /\ inst[i].active = 0
          /\ (inst[i].h \in SensorHandlers
              /\ inst[i].last \in {"start", "stop", "startThrew", "stopThrew"}) =>
               inst[i].sensor)
  /\ [][\A i \in Insts : inst[i].st = "Failed" => inst'[i] = inst[i]]_vars

\* C13 witness: the magnetometer's constructor threw, its two disabled
\* buttons are in the output region, and other events have run since.
C13_Witness ==
  \E i \in Insts :
    /\ inst[i].h = "handleMagnetometer"
    /\ inst[i].st = "Failed"
    /\ Attached(i, "Start") /\ Attached(i, "Stop")
    /\ inst[i].dis = {"Start", "Stop"}
    /\ events >= 3

\* An async sensor handler that is suspended at an awaited permission query.
Suspended(i) == inst[i].h \in SensorHandlers /\ inst[i].st = "Pending"

\* The closures of the handler the dispatcher called last.
CurrentInsts ==
  IF inst = <<>> \/ pc = "dispatch" THEN {}
  ELSE IF inst[Len(inst)].h = "handleScreenOrientationAPI" /\ inst[Len(inst)].st # "Unsupported"
  THEN {Len(inst) - 1, Len(inst)}
  ELSE {Len(inst)}

\* The handlers with a listener or continuation that writes to the output
\* region itself (the others write to elements they created).
OutputWriters ==
  {"handleBatteryStatusAPI", "handleNetworkInformation", "handlePageVisibility",
   "handleScreenWakeLockAPI"} \cup SensorHandlers

\* Is s a prefix of t.
IsPrefix(s, t) == Len(s) <= Len(t) /\ \A k \in 1..Len(s) : s[k] = t[k]

\* C14 (as claimed): when the change listener is about to call the handler
\* of the new selection, no earlier handler invocation is still in progress,
\* suspended at an awaited permission query.
C14_NoHandlerInProgressAtDispatch ==
  pc = "dispatch" => \A i \in Insts : ~Suspended(i)

\* C15: every node of the output region that was not written by the handler
\* selected last was written, after the selection changed, by a battery,
\* network or visibilitychange listener, a wake-lock continuation or a sensor
\* handler resuming after its query; such states exist (witness).
C15_StaleContentOnlyFromLeakedWriters ==
  \A j \in 1..Len(output) :
    output[j].owner \notin CurrentInsts =>
      /\ pc = "idle"
      /\ changes > 1
      /\ inst[output[j].owner].h \in OutputWriters

\* C15 witness: the output region holds the controls of the handler selected
\* last together with controls a sensor handler of the earlier selection
\* appended when its permission query resolved.
C15_Witness ==
  /\ pc = "idle"
  /\ \E j, k \in 1..Len(output) :
       /\ output[j].owner \in CurrentInsts
       /\ output[k].owner \notin CurrentInsts
       /\ inst[output[k].owner].h \in SensorHandlers
       /\ inst[output[k].owner].h # HandlerOf(selected)

\* C16: the change listener (both of its steps) leaves every closure that
\* existed before it as it was and removes no platform listener; start()
\* calls are undone only by a Stop click, a wake lock is given up only by the
\* resolution of a Release click, and no timer, idle detector, position watch
\* or platform listener is ever given up.
C16_SelectorChangeKeepsResources ==
  /\ [][pc' # pc =>
          /\ SubSeq(inst', 1, Len(inst)) = inst
          /\ batteryListeners' = batteryListeners
          /\ IsPrefix(connListeners, connListeners')
          /\ IsPrefix(visListeners, visListeners')]_vars
  /\ [][/\ \A i \in Insts :
             /\ inst'[i].starts < inst[i].starts =>
                  (inst'[i].last = "stop" /\ CanClick(i, "Stop"))
             /\ (inst[i].h \notin SensorHandlers /\ inst'[i].active < inst[i].active) =>
                  (inst[i].h = "handleScreenWakeLockAPI" /\ "release" \in inst[i].pend
                   /\ inst'[i].last = "released")
             /\ inst'[i].timers >= inst[i].timers
             /\ inst[i].listening => inst'[i].listening
         /\ IsPrefix(batteryListeners, batteryListeners')
         /\ IsPrefix(connListeners, connListeners')
         /\ IsPrefix(visListeners, visListeners')]_vars

\* C16 witness: after the second selector change a handler of the first
\* selection still holds the handle it started.
C16_Witness ==
  /\ pc = "idle"
  /\ changes = 2
  /\ \E i \in Insts : i \notin CurrentInsts /\ inst[i].active > 0

\* C12 witness: the 'error' event reached a sensor that was running (started
\* and not stopped), and the handler is idle with the failure text.
C12_Witness ==
  \E i \in Insts :
    /\ inst[i].h = "handleGyroscope"
    /\ inst[i].last = "error"
    /\ inst[i].starts = 1
    /\ inst[i].msg = <<"Gyroscope failed: error">>
    /\ Enabled(i, "Start")
    /\ Disabled(i, "Stop")

\* The order of the worker's lifecycle steps.
LifecycleOrder == <<"installing", "skipWaiting", "activating", "claim", "claimed", "active">>

\* C17: every fetch event the worker received has had respondWith() called
\* once, with the promise of one fetch() of the event's own request, method
\* and URL as they came; no cache was read or written; and a page request that
\* got a response got the network's response to that very request.
C17_FetchAnsweredFromNetwork ==
  \A k \in 1..Len(fetches) :
    LET f == fetches[k] IN
    /\ f.respondWith = 1
    /\ f.forwarded = <<f.request>>
    /\ f.cacheOps = 0
    /\ f.page = "response" => (f.net = "ok" /\ f.body = f.request)
    /\ f.page = "pending" <=> f.net = "pending"

\* C17 witness: two fetch events for different requests, one of them a POST,
\* have each been answered with the network's response to their own request.
C17_Witness ==
  /\ Len(fetches) = 2
  /\ fetches[1].request = [url |-> "/api", method |-> "POST"]
  /\ fetches[2].request = [url |-> "/", method |-> "GET"]
  /\ \A k \in 1..2 : fetches[k].page = "response" /\ fetches[k].body = fetches[k].request

\* C18: the lifecycle steps happen in the order installing, skipWaiting,
\* activating, claim, claim settled, active: the worker is never installed
\* without the skip-waiting flag, and never active before clients.claim() has
\* resolved and the open page is controlled.
C18_LifecycleOrder ==
  /\ IsPrefix(lifecycle, LifecycleOrder)
  /\ sw \in {"installed", "activating", "activated"} => skipWaitingFlag
  /\ claim # "none" => sw \in {"activating", "activated"}
  /\ sw = "activated" => (claim = "resolved" /\ controlled)

\* C18 witness: the worker is active, after all six steps, and controls the
\* page that registered it.
C18_Witness ==
  /\ sw = "activated"
  /\ lifecycle = LifecycleOrder
  /\ controlled
  /\ registration = "registered"

\* C19: every fetch event has caused exactly one network request; when that
\* request failed the page's request failed, with no response; and a settled
\* fetch event is never touched again.
C19_NetworkFailurePropagates ==
  /\ [](\A k \in 1..Len(fetches) :
          /\ Len(fetches[k].forwarded) = 1
          /\ fetches[k].net = "failed" =>
               (fetches[k].page = "failed" /\ fetches[k].body = NoRequest))
  /\ [][\A k \in 1..Len(fetches) :
          fetches[k].net # "pending" => fetches'[k] = fetches[k]]_vars

\* C19 witness: the network failed for one fetch event and the page's request
\* failed, while another fetch event was answered.
C19_Witness ==
  /\ Len(fetches) = 2
  /\ fetches[1].net = "failed" /\ fetches[1].page = "failed"
  /\ fetches[2].page = "response"

\* C20: register() is called at most once; when its promise settles nothing
\* of the page changes (the output region included) and no call is made; a
\* failure is logged, leaves no worker, and is final; and after it the
\* change listener still accepts a selection (of a user who sees the page)
\* and calls the handler.
C20_RegistrationFailureOnlyLogged ==
  /\ [](registerCalls <= 1)
  /\ [](registration = "failed" =>
          /\ "Service Worker failed to register:" \in consoleLog
          /\ sw = "none"
          /\ (pc = "idle" /\ visibility = "visible" /\ changes < MaxLoadChanges) =>
               ENABLED LoadSelectorChange
          /\ pc = "dispatch" => ENABLED Dispatch)
  /\ [][registration' # registration =>
          (pageVars' = pageVars /\ registerCalls' = registerCalls)]_vars
  /\ [][registration = "failed" => registration' = "failed"]_vars

\* C20 witness: the registration has failed and the change listener is
\* running for a selection made afterwards.
C20_Witness ==
  /\ registration = "failed"
  /\ registerCalls = 1
  /\ pc = "dispatch"
  /\ selected = "geolocation"

\* ------------------------------------------------------------ geolocation

CurrentPositionFailedMsg == "Geolocation failed to get the current position."

\* C21: every click on 'Current Position' makes exactly one
\* getCurrentPosition() call and renders nothing itself; every callback of
\* such a call renders exactly once, the block with the reported latitude,
\* longitude and accuracy (37, -122, 10 for the first position) or the fixed
\* failure text; callbacks never outnumber calls, and neither the click nor
\* the callback changes a button's disabled state.
C21_OneRequestOneRender ==
  /\ [](\A i \in Insts :
          /\ inst[i].renders <= inst[i].requests
          /\ inst[i].h # "handleGeolocationAPI" => inst[i].requests = 0)
  /\ [][\A i \in Insts :
          LET a == inst[i]
              b == inst'[i]
          IN  a.h = "handleGeolocationAPI" =>
                /\ (b # a /\ b.last = "Current Position") => b.requests = a.requests + 1
                /\ b.requests # a.requests =>
                     /\ b.requests = a.requests + 1
                     /\ Enabled(i, "Current Position")
                     /\ b.renders = a.renders /\ b.msg = a.msg /\ b.dis = a.dis
                /\ b.renders # a.renders =>
                     /\ b.renders = a.renders + 1
                     /\ b.requests = a.requests /\ b.dis = a.dis
                     /\ b.last \in {"positionOk", "positionFailed"}
                     /\ b.last = "positionFailed" => b.msg = <<CurrentPositionFailedMsg>>
                     /\ b.last = "positionOk" =>
                          b.msg = PositionBlock("Current Position:", Positions[b.value])
                     /\ (b.last = "positionOk" /\ b.value = 1) =>
                          b.msg = <<"Current Position:", "Latitude:", "37", "Longitude:", "-122",
                                    "More or less", "10", "meters.">>
                /\ (a.active = 0 /\ b.active = 0 /\ b.msg # a.msg) =>
                     b.renders = a.renders + 1
       ]_vars

\* Two requests were made and both were rendered, the second one with the
\* position (37, -122, 10), and the button is still enabled.
C21_Witness ==
  \E i \in Insts :
    /\ inst[i].h = "handleGeolocationAPI"
    /\ inst[i].requests = 2 /\ inst[i].renders = 2
    /\ inst[i].last = "positionOk" /\ inst[i].value = 1
    /\ Enabled(i, "Current Position")

\* C22: a geolocation instance holds at most one watchPosition()
\* subscription; the click that makes it disables 'Current Position' and
\* 'Watch Position' in the same step, after it no getCurrentPosition() call
\* and no second watchPosition() call is made from that instance, and no
\* step of the page ever ends the subscription.
C22_OneWatchNeverCleared ==
  /\ [](\A i \in Insts :
          inst[i].h = "handleGeolocationAPI" =>
            /\ inst[i].active <= 1
            /\ inst[i].active = 1 =>
                 {"Current Position", "Watch Position"} \subseteq inst[i].dis)
  /\ [][\A i \in Insts :
          LET a == inst[i]
              b == inst'[i]
          IN  a.h = "handleGeolocationAPI" =>
                /\ b.active >= a.active
                /\ b.active # a.active =>
                     /\ a.active = 0 /\ b.active = 1
                     /\ Enabled(i, "Watch Position")
                     /\ {"Current Position", "Watch Position"} \subseteq b.dis
                /\ a.active = 1 => (b.requests = a.requests /\ b.dis = a.dis)
       ]_vars

\* A watch was subscribed, another feature was selected afterwards, and the
\* watch still delivers a position to the instance that subscribed.
C22_Witness ==
  \E i \in Insts :
    /\ inst[i].h = "handleGeolocationAPI"
    /\ inst[i].active = 1
    /\ inst[i].last = "watchOk"
    /\ selected # "geolocation"
    /\ pc = "idle"

\* ------------------------------------------------------------ battery

\* Does the output region start with the battery lines.
ShowsBattery == Len(output) >= 4 /\ output[1].name = "Bettery charging:"

\* C23: whenever the output region shows the battery lines, the charging
\* line reads 'Yes' exactly when battery.charging is true and 'No' otherwise,
\* and the level line reads the level times 100 rounded to an integer (80%
\* for 0.8, 26% for 0.256); a battery event that brings new values leaves
\* the output showing exactly the lines of the new values.
C23_BatteryLinesShowValues ==
  /\ [](ShowsBattery =>
          /\ output[2].name = (IF battery.charging THEN "Yes" ELSE "No")
          /\ output[3].name = "Bettery level:"
          /\ output[4].name = (CASE battery.level = 800 -> "80%"
                                 [] battery.level = 256 -> "26%"))
  /\ [][(batteryListeners # <<>> /\ battery' # battery) =>
          /\ ShowsBattery' /\ Len(output') = 4
          /\ \A k \in 1..4 : output'[k].owner = batteryListeners[Len(batteryListeners)]
       ]_vars

\* After getBattery() resolved, one battery event brought charging at the
\* level 0.8, and the lines say 'Yes' and '80%'.
C23_Witness ==
  /\ Len(inst) = 1 /\ visibility = "visible" /\ events = 2
  /\ ShowsBattery
  /\ battery = [charging |-> TRUE, level |-> 800]
  /\ output[2].name = "Yes" /\ output[4].name = "80%"

\* ------------------------------------------------------------ sensor readings

C26_ReadingShowsLatestSnapshot ==
  \A i \in Insts :
    (inst[i].h \in SensorHandlers /\ inst[i].last \in {"reading", "readingThrew"}) =>
      /\ inst[i].last = "reading"
      /\ inst[i].msg = ReadingLines(inst[i].h, inst[i].value)

\* ------------------------------------------------------------ sensor buttons

\* C28: in a sensor handler instance Start and Stop are never both enabled.
C28_StartStopNeverBothEnabled ==
  \A i \in Insts :
    inst[i].h \in SensorHandlers => ~(Enabled(i, "Start") /\ Enabled(i, "Stop"))

\* The sensor was started, stopped and started again, and a start() threw
\* on the way; Stop is the enabled button.
C28_Witness ==
  \E i \in Insts :
    /\ inst[i].h \in SensorHandlers
    /\ inst[i].active = 1
    /\ Len(inst[i].msg) > 0 /\ inst[i].msg[Len(inst[i].msg)] = "Sensor stopped!"
    /\ Enabled(i, "Stop") /\ Disabled(i, "Start")

\* C29: Stop is enabled only while the sensor is active, that is while the
\* last of start() returned, stop() returned and the error event was a
\* start() that returned; so every stop() call is made on an active sensor.
C29_StopOnlyOnStartedSensor ==
  /\ [](\A i \in Insts :
          (inst[i].h \in SensorHandlers /\ Enabled(i, "Stop")) => inst[i].active > 0)
  /\ [][\A i \in Insts :
          (inst[i].h \in SensorHandlers /\ inst'[i] # inst[i]
             /\ inst'[i].last \in {"stop", "stopThrew"}) => inst[i].active > 0
       ]_vars

\* The error event ended a started sensor: Stop is disabled again.
C29_Witness ==
  \E i \in Insts :
    /\ inst[i].h \in SensorHandlers
    /\ inst[i].last = "error" /\ inst[i].starts > 0
    /\ inst[i].active = 0
    /\ Disabled(i, "Stop") /\ Enabled(i, "Start")

\* C30: a Start click whose start() throws, and a Stop click whose stop()
\* throws, change the message to the fixed text and nothing else of the
\* instance: both buttons keep their disabled state, so the clicked button
\* is still enabled.
C30_ThrowLeavesButtons ==
  [][\A i \in Insts :
       LET a == inst[i]
           b == inst'[i]
       IN  (a.h \in SensorHandlers /\ b # a) =>
             /\ b.last = "startThrew" =>
                  /\ b = [a EXCEPT !.last = "startThrew",
                            !.msg = <<"It was not possible to start the sensor: error">>]
                  /\ Enabled(i, "Start") /\ Enabled(i, "Start")'
                  /\ output' = output
             /\ b.last = "stopThrew" =>
                  /\ b = [a EXCEPT !.last = "stopThrew",
                            !.msg = <<"It was not possible to stop the sensor: error">>]
                  /\ Enabled(i, "Stop") /\ Enabled(i, "Stop")'
                  /\ output' = output
    ]_vars

\* stop() threw on a started sensor: Stop is still enabled, Start disabled.
C30_Witness ==
  \E i \in Insts :
    /\ inst[i].h \in SensorHandlers
    /\ inst[i].last = "stopThrew"
    /\ inst[i].active = 1
    /\ Enabled(i, "Stop") /\ Disabled(i, "Start")

\* ------------------------------------------------------------ notifications

\* C27: a page-visibility instance calls Notification.requestPermission()
\* only in a step that turns the page hidden; it waits for
\* navigator.serviceWorker.ready only in the callback of such a call that
\* got 'granted'; it calls showNotification() only in the continuation of
\* such a wait, when the registration has an active worker.  A step that
\* turns the page visible starts none of the three, and no other handler
\* ever shows a notification.
C27_NotificationOnlyHiddenGrantedReady ==
  /\ [](\A i \in Insts :
          inst[i].h # "handlePageVisibility" =>
            (inst[i].asking = 0 /\ inst[i].ready = 0 /\ inst[i].notified = 0))
  /\ [][\A i \in Insts :
          LET a == inst[i]
              b == inst'[i]
          IN  /\ b.asking > a.asking =>
                   /\ b.asking = a.asking + 1
                   /\ visibility = "visible" /\ visibility' = "hidden"
                   /\ b.ready = a.ready /\ b.notified = a.notified
              /\ b.ready > a.ready =>
                   /\ b.ready = a.ready + 1 /\ b.asking = a.asking - 1
                   /\ b.last = "granted"
                   /\ b.notified = a.notified
              /\ (b.asking < a.asking /\ b.last \in {"denied", "default"}) =>
                   (b.ready = a.ready /\ b.notified = a.notified)
              /\ b.notified # a.notified =>
                   /\ b.notified = a.notified + 1 /\ b.ready = a.ready - 1
                   /\ registration = "registered" /\ sw \in {"activating", "activated"}
                   /\ b.asking = a.asking
              /\ visibility' = "visible" =>
                   (b.asking <= a.asking /\ (visibility = "hidden" => b = a \/ b.last = "visible"))
       ]_vars

\* The page was hidden, the permission came back 'granted' and the ready
\* registration showed one notification.
C27_Witness ==
  \E i \in Insts :
    /\ inst[i].h = "handlePageVisibility"
    /\ inst[i].notified = 1
    /\ inst[i].last = "showNotification"
    /\ sw = "activated"

\* ------------------------------------------------------------ permission queries

\* C24: every invocation of a sensor handler that gets past the presence
\* checks has issued its own first query, and what it does is decided by
\* the states its own queries returned: it is denied exactly when the last
\* state it got is not 'granted', it reaches the sensor only when every one
\* of its permissions came back 'granted', and the answer to one
\* invocation's query changes no other invocation.
C24_OutcomeFromOwnQuery ==
  /\ [](\A i \in Insts :
          LET r == inst[i] IN
          (r.h \in SensorHandlers /\ r.st # "Unsupported") =>
            /\ 1 \in r.issued
            /\ Len(r.results) <= Cardinality(r.issued)
            /\ r.st = "Denied" <=>
                 (r.results # <<>> /\ r.results[Len(r.results)] # "granted")
            /\ r.st \in {"Ready", "Failed"} =>
                 /\ Len(r.results) = Len(SensorPerms(r.h))
                 /\ \A k \in 1..Len(r.results) : r.results[k] = "granted")
  /\ [][\A i \in Insts :
          inst'[i].results # inst[i].results =>
            \A j \in Insts : j # i => inst'[j] = inst[j]
       ]_vars

\* The accelerometer feature was selected twice: the first invocation's
\* query returned 'denied', the second invocation's query 'granted', and the
\* second invocation has its sensor.
C24_Witness ==
  \E i, j \in Insts :
    /\ i < j
    /\ inst[i].h = "handleAccelerometer" /\ inst[j].h = "handleAccelerometer"
    /\ inst[i].results = <<"denied">> /\ inst[i].st = "Denied"
    /\ inst[j].results = <<"granted">> /\ inst[j].st = "Ready"

\* ------------------------------------------------------------ page visibility

\* The page-visibility instances, in creation order.
VisibilityInsts == {i \in Insts : inst[i].h = "handlePageVisibility"}

\* C31: when the page turns visible every registered listener has assigned
\* leftTime in an earlier 'hidden' run of its own, so no listener ever
\* fails on leftTime.getTime(); listeners are registered while the page is
\* visible, the first event each of them sees being a 'hidden' one.
C31_LeftTimeSetBeforeVisible ==
  /\ [](\A i \in Insts : inst[i].err # "TypeError: leftTime is undefined")
  /\ [](visibility = "hidden" => NoLeftTime = {})
  /\ [][(visListeners' # visListeners) => visibility = "visible"]_vars
  /\ [][(visibility = "hidden" /\ visibility' = "visible") =>
          \A j \in 1..Len(visListeners) :
            /\ inst[visListeners[j]].leftTime
            /\ inst'[visListeners[j]].last = "visible"
            /\ inst'[visListeners[j]].err = inst[visListeners[j]].err
       ]_vars

\* Two listeners, the second registered after the first had seen the page
\* hidden and visible once; both have run their 'visible' branch.
C31_Witness ==
  /\ Len(visListeners) = 2
  /\ visibility = "visible"
  /\ events = 4
  /\ \A j \in 1..2 : inst[visListeners[j]].leftTime /\ inst[visListeners[j]].last = "visible"

\* C32: every call of handlePageVisibility registers one visibilitychange
\* listener and none is ever removed, so with k calls made a step to
\* 'hidden' makes k calls of Notification.requestPermission(), one per
\* listener, and a step to 'visible' runs the 'visible' branch of all k
\* listeners, the output region being left with the text of the listener
\* registered last, whichever feature is selected.
C32_EveryListenerRuns ==
  /\ [](/\ Len(visListeners) = Cardinality(VisibilityInsts)
        /\ \A i \in VisibilityInsts : \E j \in 1..Len(visListeners) : visListeners[j] = i)
  /\ [][IsPrefix(visListeners, visListeners')]_vars
  /\ [][(visibility = "visible" /\ visibility' = "hidden") =>
          \A i \in VisibilityInsts : inst'[i].asking = inst[i].asking + 1]_vars
  /\ [][(visibility = "hidden" /\ visibility' = "visible" /\ visListeners # <<>>) =>
          /\ \A i \in VisibilityInsts : inst'[i].last = "visible"
          /\ output' = SetText(visListeners[Len(visListeners)], "Welcome back!!!")]_vars

\* Page visibility was selected twice and vibration is the selected
\* feature: two permission requests are unanswered and the output region
\* holds the welcome text of the second listener.
C32_Witness ==
  /\ Cardinality(VisibilityInsts) = 2
  /\ selected = "vibration" /\ pc = "idle"
  /\ visibility = "visible"
  /\ \A i \in VisibilityInsts : inst[i].asking = 1 /\ inst[i].last = "visible"
  /\ output = SetText(visListeners[2], "Welcome back!!!")

\* ------------------------------------------------------------ clock

\* C33: from one run of an interval callback to the next, the seconds the
\* Clock button shows do not decrease.
C33_ClockNeverDecreases ==
  [][\A i \in Insts :
       (inst[i].shown > 0 /\ inst'[i].last = "tick" /\ inst'[i] # inst[i]) =>
         inst'[i].shown >= inst[i].shown]_vars

\* ------------------------------------------------------------ permissions dropdown

\* C34: when no query of the permissions handler is in flight and none was
\* rejected, the 'State for' line names the permission selected last.
C34_StateLineOfLastSelection ==
  \A i \in Insts :
    (inst[i].h = "handlePermissionsAPI" /\ inst[i].option # ""
       /\ inst[i].queries = <<>> /\ inst[i].err = "") =>
      \E state \in PermissionStates : inst[i].msg[1] = StateLine(inst[i].option, state)

\* ------------------------------------------------------------ wake lock

\* C35: while a wake-lock instance holds its sentinel unreleased, the
\* output region contains the 'Release screen' button of that instance.
C35_HeldLockHasReleaseButton ==
  \A i \in Insts :
    (inst[i].h = "handleScreenWakeLockAPI" /\ inst[i].active > 0) =>
      Attached(i, "Release screen")

\* ------------------------------------------------------------ watch and one-shot

\* C36: once an instance's 'Watch Position' has been clicked, whatever is
\* written to its message area is a 'Watching Position:' block or the text
\* of a failed watch.
C36_OnlyWatchRendersAfterWatch ==
  [][\A i \in Insts :
       (inst[i].h = "handleGeolocationAPI" /\ inst[i].active > 0
          /\ inst'[i].msg # inst[i].msg) =>
         inst'[i].msg[1] \in {"Watching Position:", "Geolocation failed to watch position."}
    ]_vars

====
